---- MODULE Spec2Model ----
(***************************************************************************)
(* stasher-web: the token / payload encoding and the enstash / destash /   *)
(* unstash protocol of the browser client.                                 *)
(*                                                                         *)
(* Representation of values.                                               *)
(*  - A short string (token, id, key text, iv text, tag text) is a         *)
(*    sequence of one-character strings.                                   *)
(*  - A byte buffer of fixed size (key, iv, tag) is a sequence of numbers  *)
(*    in 0..255.                                                           *)
(*  - A secret is a run-length string: a sequence of runs [c, n], the code *)
(*    point c repeated n times, so that secrets of thousands of UTF-16     *)
(*    code units can be drawn.  Its UTF-8 encoding is a sequence of runs   *)
(*    [u, n], the bytes u of one code point repeated n times.              *)
(*  - AES-GCM is the usual symbolic one: a ciphertext is the term          *)
(*    [ks, pt, flip] (the plaintext pt under the keystream ks of a key and *)
(*    an iv; flip = 1 when a byte was changed afterwards), as long as its  *)
(*    plaintext; the tag is a function of key, iv and plaintext.           *)
(***************************************************************************)
EXTENDS Integers, Sequences, FiniteSets, TLC

\* ------------------------------------------------------------ constants

MAX_SECRET_LENGTH == 4096
MAX_CIPHERTEXT_BYTES == 16384
KEY_LENGTH == 32
IV_LENGTH == 12
TAG_LENGTH == 16

\* ------------------------------------------------------------ results

Ok(v) == [ok |-> TRUE, val |-> v, err |-> ""]
Err(e) == [ok |-> FALSE, val |-> <<>>, err |-> e]

\* ------------------------------------------------------------ characters

Upper == <<"A","B","C","D","E","F","G","H","I","J","K","L","M",
           "N","O","P","Q","R","S","T","U","V","W","X","Y","Z">>
Lower == <<"a","b","c","d","e","f","g","h","i","j","k","l","m",
           "n","o","p","q","r","s","t","u","v","w","x","y","z">>
Digit == <<"0","1","2","3","4","5","6","7","8","9">>

\* The base64 alphabet of btoa / atob, sextet value v at index v + 1.
B64Alphabet == Upper \o Lower \o Digit \o <<"+", "/">>

Range(s) == {s[i] : i \in 1..Len(s)}

B64Chars == Range(B64Alphabet)

B64Index == [ch \in B64Chars |-> (CHOOSE i \in 1..64 : B64Alphabet[i] = ch) - 1]

B64Value(ch) == B64Index[ch]

IsB64Char(ch) == ch \in B64Chars

B64UrlChars == (B64Chars \ {"+", "/"}) \cup {"-", "_"}

HexChars == Range(Digit) \cup {"a","b","c","d","e","f"} \cup {"A","B","C","D","E","F"}

\* What String.prototype.trim removes (the three kinds the inputs here use).
WhiteSpace == {" ", "\t", "\n"}

SetMin(S) == CHOOSE x \in S : \A y \in S : x <= y
SetMax(S) == CHOOSE x \in S : \A y \in S : x >= y

\* s.trim()
Trim(s) ==
  LET n == Len(s)
      blank == \A i \in 1..n : s[i] \in WhiteSpace
      first == CHOOSE i \in 1..n : s[i] \notin WhiteSpace /\ \A j \in 1..(i - 1) : s[j] \in WhiteSpace
      back == CHOOSE k \in 1..n :
                s[n + 1 - k] \notin WhiteSpace /\ \A j \in 1..(k - 1) : s[n + 1 - j] \in WhiteSpace
  IN IF blank THEN <<>> ELSE SubSeq(s, first, n + 1 - back)

\* s.indexOf(ch), 1-based; 0 when absent (the code's -1).
IndexOf(s, ch) ==
  IF \A i \in 1..Len(s) : s[i] # ch THEN 0
  ELSE CHOOSE i \in 1..Len(s) : s[i] = ch /\ \A j \in 1..(i - 1) : s[j] # ch

\* s.includes(sub) for a sequence sub
Includes(s, sub) ==
  \E i \in 0..(Len(s) - Len(sub)) : SubSeq(s, i + 1, i + Len(sub)) = sub

\* ------------------------------------------------------------ codec

\* btoa: standard base64 with '=' padding, of a byte sequence.
Btoa(bytes) ==
  LET n == Len(bytes)
      at(i) == IF i <= n THEN bytes[i] ELSE 0
      sextet(g, pos) ==
        CASE pos = 0 -> at(3 * g + 1) \div 4
          [] pos = 1 -> ((at(3 * g + 1) % 4) * 16) + (at(3 * g + 2) \div 16)
          [] pos = 2 -> ((at(3 * g + 2) % 16) * 4) + (at(3 * g + 3) \div 64)
          [] OTHER   -> at(3 * g + 3) % 64
  IN [j \in 1..(4 * ((n + 2) \div 3)) |->
        LET g == (j - 1) \div 4
            pos == (j - 1) % 4
        IN IF (pos = 2 /\ 3 * g + 2 > n) \/ (pos = 3 /\ 3 * g + 3 > n)
           THEN "="
           ELSE B64Alphabet[sextet(g, pos) + 1]]

\* b64.replace(/=+$/, '')
StripPadding(s) ==
  LET n == Len(s)
      last == CHOOSE i \in 1..n : s[i] # "=" /\ \A j \in (i + 1)..n : s[j] = "="
  IN IF \A i \in 1..n : s[i] = "=" THEN <<>> ELSE SubSeq(s, 1, last)

\* toBase64Url with the padding left in place
toBase64UrlPadded(b64) ==
  [i \in 1..Len(b64) |-> IF b64[i] = "+" THEN "-" ELSE IF b64[i] = "/" THEN "_" ELSE b64[i]]

toBase64Url(b64) ==
  StripPadding([i \in 1..Len(b64) |->
     IF b64[i] = "+" THEN "-" ELSE IF b64[i] = "/" THEN "_" ELSE b64[i]])

arrayBufferToBase64Url(bytes) == toBase64Url(Btoa(bytes))

fromBase64Url(b64url) ==
  LET b64 == [i \in 1..Len(b64url) |->
                IF b64url[i] = "-" THEN "+"
                ELSE IF b64url[i] = "_" THEN "/" ELSE b64url[i]]
      pad == Len(b64) % 4
  IN IF pad # 0 THEN b64 \o [i \in 1..(4 - pad) |-> "="] ELSE b64

\* atob: the forgiving-base64 decode (no whitespace occurs here).  At most two
\* trailing '=' are removed, and only from a length that is a multiple of 4; a
\* remaining length of 1 modulo 4, or any character outside the alphabet, fails;
\* the 2 or 4 bits left over at the end are dropped.
Atob(s) ==
  LET n == Len(s)
      cut == IF n % 4 = 0 /\ n >= 2 /\ s[n] = "=" /\ s[n - 1] = "=" THEN 2
             ELSE IF n % 4 = 0 /\ n >= 1 /\ s[n] = "=" THEN 1 ELSE 0
      d == SubSeq(s, 1, n - cut)
      m == Len(d)
      v(k) == B64Value(d[k + 1])
  IN IF m % 4 = 1 \/ \E i \in 1..m : ~IsB64Char(d[i])
     THEN Err("atob")
     ELSE Ok([i \in 1..((m * 6) \div 8) |->
            LET k == (8 * (i - 1)) \div 6
                o == (8 * (i - 1)) % 6
            IN CASE o = 0 -> (v(k) * 4) + (v(k + 1) \div 16)
                 [] o = 2 -> ((v(k) % 16) * 16) + (v(k + 1) \div 4)
                 [] OTHER -> ((v(k) % 4) * 64) + v(k + 1)])

\* B64URL = /^[A-Za-z0-9_-]+$/
B64URL(s) ==
  /\ Len(s) >= 1
  /\ \A i \in 1..Len(s) : s[i] \in B64UrlChars

base64UrlToBytes(s) ==
  IF ~B64URL(s)
  THEN Err("Invalid base64url input: invalid characters or empty string")
  ELSE LET r == Atob(fromBase64Url(s))
       IN IF r.ok THEN r ELSE Err("Invalid base64url input: decode failed")

\* b64urlLen over the length of the text
b64urlLenOf(len) ==
  LET mod == len % 4
      pad == IF mod # 0 THEN 4 - mod ELSE 0
  IN ((len + pad) * 3) \div 4 - pad

b64urlLen(s) == b64urlLenOf(Len(s))

\* assertB64UrlLen(s, n, what): TRUE when it does not throw
assertB64UrlLen(s, n) == B64URL(s) /\ b64urlLen(s) = n

\* ------------------------------------------------------------ values

\* JSON values: what JSON.parse(encoded) gives ("notstring" when encoded is no
\* string and nothing is parsed).  A value is malformed text, null,
\* a number, a string [t |-> "string", s |-> text] or an object with fields.
JsonString(text) == [t |-> "string", s |-> text]
JsonNumber == [t |-> "number"]
JsonObject(fields) == [t |-> "object", fields |-> fields]
Undefined == [t |-> "undefined"]

\* ------------------------------------------------------------ token format

\* UUID_REGEX = /^[0-9a-f]{8}-[0-9a-f]{4}-4[0-9a-f]{3}-[89ab][0-9a-f]{3}-[0-9a-f]{12}$/i
UUID_REGEX(s) ==
  /\ Len(s) = 36
  /\ \A i \in 1..36 :
       CASE i \in {9, 14, 19, 24} -> s[i] = "-"
         [] i = 15 -> s[i] = "4"
         [] i = 20 -> s[i] \in {"8", "9", "a", "b", "A", "B"}
         [] OTHER -> s[i] \in HexChars

validateUUID(uuid) == UUID_REGEX(uuid)

normalizeToken(token) == Trim(token)

\* formatStashToken with the key text in padded base64
formatStashTokenPadded(id, keyBuffer) ==
  IF Len(keyBuffer) # KEY_LENGTH
  THEN Err("Key must be 32 bytes")
  ELSE Ok(id \o <<":">> \o toBase64UrlPadded(Btoa(keyBuffer)))

formatStashToken(id, keyBuffer) ==
  IF Len(keyBuffer) # KEY_LENGTH
  THEN Err("Key must be 32 bytes")
  ELSE Ok(id \o <<":">> \o arrayBufferToBase64Url(keyBuffer))

\* decodeStashToken without the test of the id against UUID_REGEX
decodeStashTokenAnyId(token) ==
  LET clean == normalizeToken(token)
      colonIndex == IndexOf(clean, ":")
      id == Trim(SubSeq(clean, 1, colonIndex - 1))
      keyBase64 == Trim(SubSeq(clean, colonIndex + 1, Len(clean)))
      keyBytes == base64UrlToBytes(keyBase64)
  IN IF clean = <<>> THEN Err("Invalid stash token: must be non-empty string")
     ELSE IF colonIndex = 0 THEN Err("Invalid stash token format: missing colon separator")
     ELSE IF id = <<>> THEN Err("Invalid stash token: empty ID")
     ELSE IF keyBase64 = <<>> THEN Err("Invalid stash token: empty key")
     ELSE IF ~assertB64UrlLen(keyBase64, KEY_LENGTH)
          THEN Err("Invalid stash token key: must decode to 32 bytes")
     ELSE IF ~keyBytes.ok THEN Err("Invalid stash token: malformed key encoding")
     ELSE IF Len(keyBytes.val) # KEY_LENGTH THEN Err("Invalid stash token: key must be 32 bytes")
     ELSE Ok([id |-> id, keyBuffer |-> keyBytes.val])

\* The result of a function beside the calls it reached, in their order
Reached(res, steps) == [res |-> res, steps |-> steps]

\* decodeStashToken that decodes the key text before it looks at its length
decodeStashTokenDecodeFirst(token) ==
  LET clean == normalizeToken(token)
      colonIndex == IndexOf(clean, ":")
      id == Trim(SubSeq(clean, 1, colonIndex - 1))
      keyBase64 == Trim(SubSeq(clean, colonIndex + 1, Len(clean)))
      keyBytes == base64UrlToBytes(keyBase64)
  IN IF clean = <<>> THEN Reached(Err("Invalid stash token: must be non-empty string"), <<>>)
     ELSE IF colonIndex = 0
          THEN Reached(Err("Invalid stash token format: missing colon separator"), <<>>)
     ELSE IF id = <<>> THEN Reached(Err("Invalid stash token: empty ID"), <<>>)
     ELSE IF keyBase64 = <<>> THEN Reached(Err("Invalid stash token: empty key"), <<>>)
     ELSE IF ~UUID_REGEX(id) THEN Reached(Err("Invalid stash token: malformed UUID"), <<>>)
     ELSE IF ~keyBytes.ok
          THEN Reached(Err("Invalid stash token: malformed key encoding"), <<"base64UrlToBytes">>)
     ELSE IF ~assertB64UrlLen(keyBase64, KEY_LENGTH)
          THEN Reached(Err("Invalid stash token key: must decode to 32 bytes"),
                       <<"base64UrlToBytes", "assertB64UrlLen">>)
     ELSE Reached(Ok([id |-> id, keyBuffer |-> keyBytes.val]),
                  <<"base64UrlToBytes", "assertB64UrlLen">>)

\* decodeStashToken(token), with the calls on the key text it reached:
\* assertB64UrlLen throws before base64UrlToBytes is called
decodeStashTokenTraced(token) ==
  LET clean == normalizeToken(token)
      colonIndex == IndexOf(clean, ":")
      id == Trim(SubSeq(clean, 1, colonIndex - 1))
      keyBase64 == Trim(SubSeq(clean, colonIndex + 1, Len(clean)))
      keyBytes == base64UrlToBytes(keyBase64)
  IN IF clean = <<>> THEN Reached(Err("Invalid stash token: must be non-empty string"), <<>>)
     ELSE IF colonIndex = 0
          THEN Reached(Err("Invalid stash token format: missing colon separator"), <<>>)
     ELSE IF id = <<>> THEN Reached(Err("Invalid stash token: empty ID"), <<>>)
     ELSE IF keyBase64 = <<>> THEN Reached(Err("Invalid stash token: empty key"), <<>>)
     ELSE IF ~UUID_REGEX(id) THEN Reached(Err("Invalid stash token: malformed UUID"), <<>>)
     ELSE IF ~assertB64UrlLen(keyBase64, KEY_LENGTH)
          THEN Reached(Err("Invalid stash token key: must decode to 32 bytes"),
                       <<"assertB64UrlLen">>)
     ELSE IF ~keyBytes.ok
          THEN Reached(Err("Invalid stash token: malformed key encoding"),
                       <<"assertB64UrlLen", "base64UrlToBytes">>)
     ELSE IF Len(keyBytes.val) # KEY_LENGTH
          THEN Reached(Err("Invalid stash token: key must be 32 bytes"),
                       <<"assertB64UrlLen", "base64UrlToBytes">>)
     ELSE Reached(Ok([id |-> id, keyBuffer |-> keyBytes.val]),
                  <<"assertB64UrlLen", "base64UrlToBytes">>)

decodeStashToken(token) == decodeStashTokenTraced(token).res

\* parseUUID that returns the text before the colon as it stands
parseUUIDUntrimmed(token) ==
  LET clean == normalizeToken(token)
      colonIndex == IndexOf(clean, ":")
      id == SubSeq(clean, 1, colonIndex - 1)
  IN IF colonIndex # 0
     THEN (IF validateUUID(Trim(id)) THEN id ELSE <<>>)
     ELSE (IF validateUUID(Trim(clean)) THEN clean ELSE <<>>)

\* Extract UUID from token or return null (<<>>) if invalid
parseUUID(token) ==
  LET clean == normalizeToken(token)
      colonIndex == IndexOf(clean, ":")
      id == Trim(SubSeq(clean, 1, colonIndex - 1))
  IN IF colonIndex # 0
     THEN (IF validateUUID(Trim(id)) THEN id ELSE <<>>)
     ELSE (IF validateUUID(Trim(clean)) THEN clean ELSE <<>>)

\* parseUUID(token) for a token of any type: typeof token !== 'string' gives null
parseUUIDOfValue(v) == IF v.t # "string" THEN <<>> ELSE parseUUID(v.s)

\* decodeStashToken(token) for a token of any type
decodeStashTokenOfValue(v) ==
  IF v.t # "string" THEN Err("Invalid stash token: must be string") ELSE decodeStashToken(v.s)

\* ------------------------------------------------------------ payload format

\* data.f
Field(data, f) == IF f \in DOMAIN data.fields THEN data.fields[f] ELSE Undefined

\* parsePayload(encoded), on the value JSON.parse gives for encoded
parsePayload(data) ==
  IF data.t = "notstring" THEN Err("Invalid payload: must be string")
  ELSE IF data.t = "malformed" THEN Err("Invalid payload: malformed JSON")
  ELSE IF data.t # "object" THEN Err("Invalid payload: must be object")
  ELSE IF Field(data, "iv").t # "string" THEN Err("Invalid payload: iv must be string")
  ELSE IF Field(data, "tag").t # "string" THEN Err("Invalid payload: tag must be string")
  ELSE IF Field(data, "ciphertext").t # "string"
       THEN Err("Invalid payload: ciphertext must be string")
  ELSE IF ~assertB64UrlLen(Field(data, "iv").s, IV_LENGTH)
       THEN Err("Invalid payload iv: must decode to 12 bytes")
  ELSE IF ~assertB64UrlLen(Field(data, "tag").s, TAG_LENGTH)
       THEN Err("Invalid payload tag: must decode to 16 bytes")
  ELSE IF ~B64URL(Field(data, "ciphertext").s)
       THEN Err("Invalid payload: ciphertext must be base64url format")
  ELSE IF b64urlLen(Field(data, "ciphertext").s) <= 0
       THEN Err("Invalid payload: ciphertext cannot be empty")
  ELSE IF b64urlLen(Field(data, "ciphertext").s) > MAX_CIPHERTEXT_BYTES
       THEN Err("Invalid payload: ciphertext too large (max 16384 bytes)")
  ELSE Ok(data)

\* ------------------------------------------------------------ secrets

\* Code points the secrets are made of: tab, space, 'a', U+00E9, U+20AC, U+1F600.
CodePoints == {9, 32, 97, 233, 8364, 128512}

\* UTF-16 code units of one code point (what String.length counts)
Utf16Units(c) == IF c > 65535 THEN 2 ELSE 1

\* TextEncoder: the UTF-8 bytes of one code point
Utf8Bytes(c) ==
  IF c < 128 THEN <<c>>
  ELSE IF c < 2048 THEN <<192 + (c \div 64), 128 + (c % 64)>>
  ELSE IF c < 65536 THEN <<224 + (c \div 4096), 128 + ((c \div 64) % 64), 128 + (c % 64)>>
  ELSE <<240 + (c \div 262144), 128 + ((c \div 4096) % 64), 128 + ((c \div 64) % 64), 128 + (c % 64)>>

\* TextDecoder('utf-8'): the code point of one well-formed unit, U+FFFD otherwise
Utf8CodePoint(u) ==
  LET cont(i) == u[i] >= 128 /\ u[i] < 192
  IN IF Len(u) = 1 /\ u[1] < 128 THEN u[1]
     ELSE IF Len(u) = 2 /\ u[1] >= 194 /\ u[1] < 224 /\ cont(2)
          THEN ((u[1] - 192) * 64) + (u[2] - 128)
     ELSE IF Len(u) = 3 /\ u[1] >= 224 /\ u[1] < 240 /\ cont(2) /\ cont(3)
          THEN ((u[1] - 224) * 4096) + ((u[2] - 128) * 64) + (u[3] - 128)
     ELSE IF Len(u) = 4 /\ u[1] >= 240 /\ u[1] < 245 /\ cont(2) /\ cont(3) /\ cont(4)
          THEN ((u[1] - 240) * 262144) + ((u[2] - 128) * 4096) + ((u[3] - 128) * 64) + (u[4] - 128)
     ELSE 65533

\* secret.length
RECURSIVE StrLength(_)
StrLength(s) ==
  IF s = <<>> THEN 0 ELSE (Head(s).n * Utf16Units(Head(s).c)) + StrLength(Tail(s))

\* the byte length of a UTF-8 buffer
RECURSIVE ByteLength(_)
ByteLength(b) ==
  IF b = <<>> THEN 0 ELSE (Head(b).n * Len(Head(b).u)) + ByteLength(Tail(b))

\* secret.trim()
StrTrim(s) ==
  LET keep == {i \in 1..Len(s) : s[i].c \notin {9, 32}}
  IN IF keep = {} THEN <<>> ELSE SubSeq(s, SetMin(keep), SetMax(keep))

\* new TextEncoder().encode(secret)
TextEncode(s) == [i \in 1..Len(s) |-> [u |-> Utf8Bytes(s[i].c), n |-> s[i].n]]

\* new TextDecoder('utf-8').decode(bytes)
TextDecode(b) == [i \in 1..Len(b) |-> [c |-> Utf8CodePoint(b[i].u), n |-> b[i].n]]

validateSecretContent(secret) == StrLength(StrTrim(secret)) > 0

validateSecretLength(secret) == StrLength(secret) <= MAX_SECRET_LENGTH

\* ------------------------------------------------------------ cipher engine

\* crypto.subtle.encrypt, AES-GCM: ciphertext and 128-bit tag
AesGcmCiphertext(key, iv, pt) == [ks |-> <<key, iv>>, pt |-> pt, flip |-> 0]

AesGcmTag(key, iv, pt) ==
  [i \in 1..TAG_LENGTH |-> (key[i] + (3 * iv[((i - 1) % Len(iv)) + 1]) + (7 * ByteLength(pt)) + i) % 256]

\* crypto.subtle.decrypt, AES-GCM: the plaintext when the tag verifies
AesGcmDecrypt(key, iv, ct, tag) ==
  IF ct.ks = <<key, iv>> /\ ct.flip = 0 /\ tag = AesGcmTag(key, iv, ct.pt)
  THEN Ok(ct.pt)
  ELSE Err("OperationError")

\* the bytes of a ciphertext
CtByteLength(ct) == ByteLength(ct.pt)

\* arrayBufferToBase64Url of a ciphertext: its base64url text
CtToBase64Url(ct) == [b64 |-> ct]

\* text.length of the base64url text of a ciphertext (no padding)
CtTextLength(t) == ((4 * CtByteLength(t.b64)) + 2) \div 3

\* base64UrlToBytes of a ciphertext text
CtFromBase64Url(t) ==
  IF CtTextLength(t) = 0
  THEN Err("Invalid base64url input: invalid characters or empty string")
  ELSE Ok(t.b64)

\* The bytes of a ciphertext.  AES-GCM in counter mode gives as many bytes as
\* the plaintext has; the values stand in for the ones of the cipher.
RECURSIVE PlainBytes(_)
PlainBytes(b) ==
  IF b = <<>> THEN <<>>
  ELSE [i \in 1..(Head(b).n * Len(Head(b).u)) |-> Head(b).u[((i - 1) % Len(Head(b).u)) + 1]]
         \o PlainBytes(Tail(b))

CtBytes(ct) ==
  LET pt == PlainBytes(ct.pt)
      key == ct.ks[1]
      iv == ct.ks[2]
  IN [i \in 1..Len(pt) |->
        (pt[i] + key[((i - 1) % Len(key)) + 1] + iv[((i - 1) % Len(iv)) + 1] + ct.flip) % 256]

\* The characters of the base64url text of a ciphertext
CtText(t) == arrayBufferToBase64Url(CtBytes(t.b64))

\* encryptSecret with the length compared by >= 
encryptSecretOffByOne(secret, key, iv) ==
  IF secret = <<>> THEN Err("Invalid secret: must be non-empty string")
  ELSE IF StrLength(secret) >= MAX_SECRET_LENGTH
       THEN Err("Secret too long: maximum 4096 characters")
  ELSE LET secretBytes == TextEncode(secret)
       IN Ok([keyBuffer |-> key, iv |-> iv,
              ciphertext |-> AesGcmCiphertext(key, iv, secretBytes),
              tag |-> AesGcmTag(key, iv, secretBytes)])

\* encryptSecret(secret), with the key and the iv the random source draws
encryptSecret(secret, key, iv) ==
  IF secret = <<>> THEN Err("Invalid secret: must be non-empty string")
  ELSE IF StrLength(secret) > MAX_SECRET_LENGTH
       THEN Err("Secret too long: maximum 4096 characters")
  ELSE LET secretBytes == TextEncode(secret)
       IN Ok([keyBuffer |-> key, iv |-> iv,
              ciphertext |-> AesGcmCiphertext(key, iv, secretBytes),
              tag |-> AesGcmTag(key, iv, secretBytes)])

\* createPayload with the key among the fields
createPayloadWithKey(encryptionResult) ==
  [iv |-> arrayBufferToBase64Url(encryptionResult.iv),
   tag |-> arrayBufferToBase64Url(encryptionResult.tag),
   ciphertext |-> CtToBase64Url(encryptionResult.ciphertext),
   key |-> arrayBufferToBase64Url(encryptionResult.keyBuffer)]

\* createPayload that leaves the padding of base64 in the texts
createPayloadPadded(encryptionResult) ==
  [iv |-> toBase64UrlPadded(Btoa(encryptionResult.iv)),
   tag |-> toBase64UrlPadded(Btoa(encryptionResult.tag)),
   ciphertext |-> CtToBase64Url(encryptionResult.ciphertext)]

createPayload(encryptionResult) ==
  [iv |-> arrayBufferToBase64Url(encryptionResult.iv),
   tag |-> arrayBufferToBase64Url(encryptionResult.tag),
   ciphertext |-> CtToBase64Url(encryptionResult.ciphertext)]

\* A result of decryptSecret with the calls of crypto.subtle it made
Traced(res, subtle) == [res |-> res, subtle |-> subtle]

\* decryptSecret that leaves the check of the tag length to AES-GCM
decryptSecretTagUnchecked(payload, keyBuffer) ==
  LET iv == base64UrlToBytes(payload.iv)
      tag == base64UrlToBytes(payload.tag)
      ciphertext == CtFromBase64Url(payload.ciphertext)
      decrypted == AesGcmDecrypt(keyBuffer, iv.val, ciphertext.val, tag.val)
  IN IF Len(keyBuffer) # KEY_LENGTH THEN Traced(Err("Invalid key: must be 32 bytes"), <<>>)
     ELSE IF ~iv.ok THEN Traced(iv, <<>>)
     ELSE IF ~tag.ok THEN Traced(tag, <<>>)
     ELSE IF ~ciphertext.ok THEN Traced(ciphertext, <<>>)
     ELSE IF Len(iv.val) # IV_LENGTH
          THEN Traced(Err("Invalid IV length: must be 12 bytes"), <<>>)
     ELSE IF ~decrypted.ok THEN Traced(decrypted, <<"importKey", "decrypt">>)
     ELSE Traced(Ok(TextDecode(decrypted.val)), <<"importKey", "decrypt">>)

\* decryptSecret(payload, keyBuffer), with the calls of crypto.subtle it made
decryptSecretTraced(payload, keyBuffer) ==
  LET iv == base64UrlToBytes(payload.iv)
      tag == base64UrlToBytes(payload.tag)
      ciphertext == CtFromBase64Url(payload.ciphertext)
      decrypted == AesGcmDecrypt(keyBuffer, iv.val, ciphertext.val, tag.val)
  IN IF Len(keyBuffer) # KEY_LENGTH THEN Traced(Err("Invalid key: must be 32 bytes"), <<>>)
     ELSE IF ~iv.ok THEN Traced(iv, <<>>)
     ELSE IF ~tag.ok THEN Traced(tag, <<>>)
     ELSE IF ~ciphertext.ok THEN Traced(ciphertext, <<>>)
     ELSE IF Len(iv.val) # IV_LENGTH
          THEN Traced(Err("Invalid IV length: must be 12 bytes"), <<>>)
     ELSE IF Len(tag.val) # TAG_LENGTH
          THEN Traced(Err("Invalid auth tag length: must be 16 bytes"), <<>>)
     ELSE IF ~decrypted.ok THEN Traced(decrypted, <<"importKey", "decrypt">>)
     ELSE Traced(Ok(TextDecode(decrypted.val)), <<"importKey", "decrypt">>)

decryptSecret(payload, keyBuffer) == decryptSecretTraced(payload, keyBuffer).res

\* self.onmessage of the crypto worker: the response it posts
WorkerEncrypt(secret, key, iv) ==
  LET r == encryptSecret(secret, key, iv)
  IN IF r.ok THEN Ok([keyBuffer |-> r.val.keyBuffer, payload |-> createPayload(r.val)])
     ELSE r

WorkerDecrypt(payload, keyBuffer) == decryptSecret(payload, keyBuffer)

\* The responses self.onmessage posts for one message, in their order.  A
\* message is event.data: no object, or an object whose id, action and data are
\* values ([t |-> "string", s |-> ...], an object, or another type); the
\* fields of data that are absent are Undefined.
Success(id, result) == [id |-> id, success |-> TRUE, result |-> result, error |-> ""]
Failure(id, error) == [id |-> id, success |-> FALSE, result |-> <<>>, error |-> error]

\* The switch of self.onmessage: the result of the action, or what it throws
WorkerAction(action, data, key, iv) ==
  IF action = "encrypt"
  THEN (IF data.secret.t # "string" THEN Err("Invalid secret: must be non-empty string")
        ELSE WorkerEncrypt(data.secret.s, key, iv))
  ELSE IF action = "decrypt"
  THEN (IF data.payload.t # "object" THEN Err("Invalid payload")
        ELSE IF data.keyBuffer.t # "bytes" THEN Err("Invalid key: must be 32 bytes")
        ELSE LET r == WorkerDecrypt(data.payload.v, data.keyBuffer.v)
             IN IF r.ok THEN Ok([secret |-> r.val]) ELSE r)
  ELSE Err("Unknown action")

\* self.onmessage.  After an encrypt the result is posted with the buffer of
\* result.keyBuffer in the transfer list, which detaches it in the worker;
\* result.keyBuffer.fill(0) on the detached buffer throws a TypeError inside
\* the try block, and the catch posts a failure with the same id.
onmessage(msg, key, iv) ==
  IF msg.t # "object"
  THEN <<Failure("unknown", "Malformed message: missing or invalid data")>>
  ELSE IF msg.id.t # "string" \/ msg.id.s = ""
  THEN <<Failure("unknown", "Malformed message: missing or invalid id")>>
  ELSE IF msg.action.t # "string" \/ msg.action.s = ""
  THEN <<Failure(msg.id.s, "Malformed message: missing or invalid action")>>
  ELSE IF msg.data.t # "object"
  THEN <<Failure(msg.id.s, "Malformed message: missing or invalid data payload")>>
  ELSE LET r == WorkerAction(msg.action.s, msg.data, key, iv)
       IN IF ~r.ok THEN <<Failure(msg.id.s, r.err)>>
          ELSE IF msg.action.s = "encrypt"
          THEN <<Success(msg.id.s, r.val), Failure(msg.id.s, "TypeError")>>
          ELSE <<Success(msg.id.s, r.val)>>

\* secureWipe(buffer): buffer.fill(0)
secureWipe(buffer) == [i \in 1..Len(buffer) |-> 0]

\* The bytes of data.keyBuffer in the worker after the 'decrypt' case: wiped
\* after decryptSecret returned; a throw of decryptSecret goes to the catch,
\* which posts the error and wipes nothing.
WorkerKeyAfterDecrypt(payload, keyBuffer) ==
  IF decryptSecret(payload, keyBuffer).ok THEN secureWipe(keyBuffer) ELSE keyBuffer

\* encrypt(secret) of crypto.ts: the worker's payload decoded to an EncryptionResult
encrypt(workerResult) ==
  LET iv == base64UrlToBytes(workerResult.payload.iv)
      tag == base64UrlToBytes(workerResult.payload.tag)
      ciphertext == CtFromBase64Url(workerResult.payload.ciphertext)
  IN IF ~iv.ok THEN iv
     ELSE IF ~tag.ok THEN tag
     ELSE IF ~ciphertext.ok THEN ciphertext
     ELSE Ok([keyBuffer |-> workerResult.keyBuffer, iv |-> iv.val,
              ciphertext |-> ciphertext.val, tag |-> tag.val])


\* ------------------------------------------------------------ inputs

\* The server accepts this many stashes.
MaxStashes == 1

Run(c, n) == [c |-> c, n |-> n]

\* Secrets handed to enstash: empty, blank, one with outer blanks and a
\* three-byte character, and the ones around the 4096 limit.
SecretInputs ==
  { <<>>,
    <<Run(32, 3)>>,
    <<Run(32, 1), Run(97, 2), Run(8364, 1), Run(9, 1)>>,
    <<Run(97, 4096)>>,
    <<Run(97, 4097)>>,
    <<Run(8364, 1366)>> }

\* What the random source of the worker can draw.
Key(b) == [i \in 1..KEY_LENGTH |-> (b + (37 * i)) % 256]
Iv(b) == [i \in 1..IV_LENGTH |-> (b + (11 * i)) % 256]
KeyPool == {Key(0), Key(255)}
IvPool == {Iv(3), Iv(250)}

Rep(ch, n) == [i \in 1..n |-> ch]

\* A string of the shape of a UUID: hex digit h everywhere, version digit v,
\* variant digit r.
UuidOf(h, v, r) ==
  Rep(h, 8) \o <<"-">> \o Rep(h, 4) \o <<"-", v>> \o Rep(h, 3) \o <<"-", r>>
    \o Rep(h, 3) \o <<"-">> \o Rep(h, 12)

\* The ids the server assigns.
Ids == {UuidOf("a", "4", "8"), UuidOf("E", "4", "B")}

KeyText(key) == arrayBufferToBase64Url(key)

ValidTokens == {id \o <<":">> \o KeyText(k) : id \in Ids, k \in KeyPool}

PaddedToken == <<" ">> \o UuidOf("a", "4", "8") \o <<":", " ">> \o KeyText(Key(0)) \o <<"\t">>

\* Inputs decodeStashToken rejects: empty, blank, no colon, empty id, empty key,
\* wrong version digit, wrong variant digit, a key of 31 bytes, a key text with
\* a character outside the alphabet, a key text of 44 characters.
MalformedTokens ==
  { <<>>,
    <<" ", "\t">>,
    UuidOf("a", "4", "8"),
    <<":">> \o KeyText(Key(0)),
    UuidOf("a", "4", "8") \o <<":">>,
    UuidOf("a", "1", "8") \o <<":">> \o KeyText(Key(0)),
    UuidOf("a", "4", "c") \o <<":">> \o KeyText(Key(0)),
    UuidOf("a", "4", "8") \o <<":">> \o arrayBufferToBase64Url(SubSeq(Key(0), 1, 31)),
    UuidOf("a", "4", "8") \o <<":">> \o Rep("A", 42) \o <<"+">>,
    UuidOf("a", "4", "8") \o <<":">> \o Rep("A", 44) }

DestashInputs == ValidTokens \cup {PaddedToken} \cup MalformedTokens

UnstashInputs ==
  Ids \cup ValidTokens
    \cup { <<>>,
           UuidOf("a", "1", "8"),
           <<" ">> \o UuidOf("a", "4", "8"),
           UuidOf("a", "4", "8") \o <<":">>,
           UuidOf("a", "4", "8") \o <<":">> \o Rep("A", 42) }

\* ------------------------------------------------------------ wire

NoBody == [iv |-> <<>>, tag |-> <<>>, ciphertext |-> [b64 |-> [ks |-> <<>>, pt |-> <<>>, flip |-> 0]]]

NoRequest == [method |-> "NONE", path |-> <<>>, headers |-> {}, hasBody |-> FALSE, body |-> NoBody]

EnstashPath == <<"/", "e", "n", "s", "t", "a", "s", "h">>
DestashPath == <<"/", "d", "e", "s", "t", "a", "s", "h", "/">>
UnstashPath == <<"/", "u", "n", "s", "t", "a", "s", "h", "/">>

\* fetch(`${getApiBaseUrl()}/enstash`, {method: 'POST', headers, body: JSON.stringify(payload)})
EnstashRequest(payload) ==
  [method |-> "POST", path |-> EnstashPath,
   headers |-> {<<"Content-Type", "application/json">>},
   hasBody |-> TRUE, body |-> payload]

\* fetch(`${getApiBaseUrl()}/destash/${id}`, {method: 'GET'})
DestashRequest(id) ==
  [method |-> "GET", path |-> DestashPath \o id, headers |-> {}, hasBody |-> FALSE, body |-> NoBody]

\* fetch(`${getApiBaseUrl()}/unstash/${id}`, {method: 'DELETE'})
UnstashRequest(id) ==
  [method |-> "DELETE", path |-> UnstashPath \o id, headers |-> {}, hasBody |-> FALSE, body |-> NoBody]

\* A response: status 0 is none yet, -1 is a fetch that rejects.  A body is the
\* payload of a stash, {id}, {error} or text.  src is not part of the message:
\* the secret and the key of the enstash call the payload comes from, what was
\* changed in the payload while it was stored ("no", "ciphertext" or "tag"), and the state the server found
\* the stash in when it answered.
Response(status, id, error, payload, src) ==
  [status |-> status, id |-> id, error |-> error, payload |-> payload, src |-> src]

NoSource == [secret |-> <<>>, key |-> <<>>, tampered |-> "no", st |-> "none"]

NoResponse == Response(0, <<>>, "", NoBody, NoSource)

\* response.ok
ResponseOk(r) == r.status >= 200 /\ r.status <= 299

\* ------------------------------------------------------------ state

VARIABLES
  server,      \* the API server: per id, the state of its stash and the payload stored
  reads,       \* per id, the number of destash calls that returned a secret
  call,        \* the stash operation in flight, or the last one finished
  workerReq,   \* the request posted to the crypto worker
  workerResp,  \* the response the crypto worker posted, with the action it
               \* answers and the key buffer the worker received as the handler left it
  httpReq,     \* the request sent to the API
  httpResp,    \* the response of the API
  pure,        \* the last application of a function of the codec, token or cipher
  workerLog,   \* encryptSecret called in a row: what the random source gave, what was returned
  calls,       \* concurrent stash operations, one per caller
  cryptoManager, \* the singleton of crypto-manager.ts: the manager it holds, 0 for null
  managers,    \* the CryptoWorkerManagerImpl objects created so far, with their workers
  ui           \* the page: its input, message and buttons, the click handlers in flight, the idle timer

managerVars == <<calls, cryptoManager, managers>>

vars ==
  <<server, reads, call, workerReq, workerResp, httpReq, httpResp, pure, workerLog,
    calls, cryptoManager, managers, ui>>

NoStash == [st |-> "absent", payload |-> NoBody, src |-> NoSource]
NoWorkerReq == [action |-> "none", secret |-> <<>>, payload |-> NoBody, keyBuffer |-> <<>>]
NoWorkerResp == [ready |-> FALSE, res |-> Err(""), action |-> "none", keyBuffer |-> <<>>]
NoCall ==
  [op |-> "none", pc |-> "done", secret |-> <<>>, token |-> <<>>, key |-> <<>>, id |-> <<>>,
   payload |-> NoBody, nreq |-> 0, nenc |-> 0, ndec |-> 0, status |-> 0, src |-> NoSource, out |-> Err("")]
NoPure == [f |-> "none"]

\* The buttons of the page: the three .operation buttons and #clear-button
Modes == {"enstash", "destash", "unstash"}
Buttons == Modes \cup {"clear"}

NoMessage == [text |-> "", error |-> FALSE]

\* The page after its script ran: empty input and message, every button
\* enabled, no click handler in flight, the idle timer armed (resetIdleTimer() at
\* load).  popup: window.opener !== null || window.name !== ''.  erasing: the
\* 100 ms timeouts of secureErase that are pending.
Loaded(popup) ==
  [popup |-> popup, closed |-> FALSE, input |-> <<>>, message |-> NoMessage,
   disabled |-> [b \in Buttons |-> FALSE], working |-> "none", ops |-> <<>>,
   timer |-> "armed", erasing |-> 0]

\* drawn: the values crypto.subtle.generateKey and randomBytes returned, in the
\* order of the calls; encrypted: the secret and the result of each call of
\* encryptSecret that returned.
NoLog == [drawn |-> <<>>, encrypted |-> <<>>]

\* Concurrent callers of the stash operations; each makes one call.
MaxCallers == 2
Callers == 1..MaxCallers

\* A concurrent call: m is the manager its crypto request went to (the manager
\* is named after the caller that created it), req the id of that request,
\* res the settlement of its promise, settled the number of times the promise
\* was resolved or rejected.
NoCallOf ==
  [op |-> "none", pc |-> "idle", secret |-> <<>>, token |-> <<>>, key |-> <<>>, id |-> <<>>,
   payload |-> NoBody, m |-> 0, req |-> 0, res |-> Err(""), settled |-> 0,
   nreq |-> 0, status |-> 0, out |-> Err("")]

\* new CryptoWorkerManagerImpl(): worker is "none" (null), "alive" or
\* "terminated"; pending is the set of ids in pendingRequests; inbox holds the
\* requests posted to the worker and not handled.
NoManager == [created |-> FALSE, worker |-> "none", requestId |-> 0, pending |-> {}, inbox |-> {}]

Init ==
  /\ server = [id \in Ids |-> NoStash]
  /\ reads = [id \in Ids |-> 0]
  /\ call = NoCall
  /\ workerReq = NoWorkerReq
  /\ workerResp = NoWorkerResp
  /\ httpReq = NoRequest
  /\ httpResp = NoResponse
  /\ pure = NoPure
  /\ workerLog = NoLog
  /\ calls = [i \in Callers |-> NoCallOf]
  /\ cryptoManager = 0
  /\ managers = [m \in Callers |-> NoManager]
  /\ ui = Loaded(FALSE)


\* ------------------------------------------------------------ API server

\* The id a request path names, after the prefix of its endpoint.
PathId(path, prefix) == SubSeq(path, Len(prefix) + 1, Len(path))

Pending(method) == httpReq.method = method /\ httpResp.status = 0

\* POST /enstash: the payload is stored under a new id, 2xx {id}.
ApiEnstash ==
  /\ Pending("POST")
  /\ Cardinality({i \in Ids : server[i].st # "absent"}) < MaxStashes
  /\ \E id \in Ids :
       /\ server[id].st = "absent"
       /\ server' = [server EXCEPT ![id] =
            [st |-> "created", payload |-> httpReq.body,
             src |-> [secret |-> call.secret, key |-> call.key, tampered |-> "no",
                     st |-> "created"]]]
       /\ httpResp' = Response(200, id, "", NoBody, NoSource)
  /\ UNCHANGED <<reads, call, workerReq, workerResp, httpReq, pure, workerLog, managerVars, ui>>

\* GET /destash/{id} of a stash in state Created: 2xx with the payload, and the
\* stash is consumed (burn after read).
ApiDestashFound ==
  /\ Pending("GET")
  /\ LET id == PathId(httpReq.path, DestashPath)
     IN /\ id \in Ids
        /\ server[id].st = "created"
        /\ httpResp' = Response(200, <<>>, "", server[id].payload, server[id].src)
        /\ server' = [server EXCEPT ![id] = [NoStash EXCEPT !.st = "consumed"]]
  /\ UNCHANGED <<reads, call, workerReq, workerResp, httpReq, pure, workerLog, managerVars, ui>>

\* GET /destash/{id} of anything else: 404, or 410 with a discriminator for a
\* stash that expired or was consumed.
ApiDestashGone ==
  /\ Pending("GET")
  /\ LET id == PathId(httpReq.path, DestashPath)
         found == [NoSource EXCEPT !.st = IF id \in Ids THEN server[id].st ELSE "absent"]
     IN \/ /\ id \in Ids => server[id].st # "created"
           /\ httpResp' = Response(404, <<>>, "Not found", NoBody, found)
        \/ /\ id \in Ids
           /\ server[id].st = "expired"
           /\ httpResp' = Response(410, <<>>, "Expired", NoBody, found)
        \/ /\ id \in Ids
           /\ server[id].st = "consumed"
           /\ httpResp' = Response(410, <<>>, "Consumed", NoBody, found)
  /\ UNCHANGED <<server, reads, call, workerReq, workerResp, httpReq, pure, workerLog, managerVars, ui>>

\* DELETE /unstash/{id} of a stash in state Created: 2xx {id}, the stash is deleted.
ApiUnstashFound ==
  /\ Pending("DELETE")
  /\ LET id == PathId(httpReq.path, UnstashPath)
     IN /\ id \in Ids
        /\ server[id].st = "created"
        /\ httpResp' = Response(200, id, "", NoBody, server[id].src)
        /\ server' = [server EXCEPT ![id] = [NoStash EXCEPT !.st = "deleted"]]
  /\ UNCHANGED <<reads, call, workerReq, workerResp, httpReq, pure, workerLog, managerVars, ui>>

ApiUnstashGone ==
  /\ Pending("DELETE")
  /\ LET id == PathId(httpReq.path, UnstashPath)
         found == [NoSource EXCEPT !.st = IF id \in Ids THEN server[id].st ELSE "absent"]
     IN \/ /\ id \in Ids => server[id].st # "created"
           /\ httpResp' = Response(404, <<>>, "Not found", NoBody, found)
        \/ /\ id \in Ids
           /\ server[id].st = "expired"
           /\ httpResp' = Response(410, <<>>, "Expired", NoBody, found)
        \/ /\ id \in Ids
           /\ server[id].st = "consumed"
           /\ httpResp' = Response(410, <<>>, "Consumed", NoBody, found)
  /\ UNCHANGED <<server, reads, call, workerReq, workerResp, httpReq, pure, workerLog, managerVars, ui>>

\* Statuses that are neither 2xx nor 404 nor 410
OtherStatuses == {429, 500}

\* Any request can be answered with another status and a text, the stashes
\* unchanged.
ApiError ==
  /\ httpReq.method # "NONE"
  /\ httpResp.status = 0
  /\ \E status \in OtherStatuses :
       httpResp' = Response(status, <<>>, IF status = 500 THEN "Internal error" ELSE "Slow down",
                            NoBody, NoSource)
  /\ UNCHANGED <<server, reads, call, workerReq, workerResp, httpReq, pure, workerLog, managerVars, ui>>

\* The connection fails: before the server saw the request, or after it acted
\* and before the response arrived.  fetch rejects.
NetworkFailure ==
  /\ httpReq.method # "NONE"
  /\ httpResp.status >= 0
  /\ httpResp' = Response(-1, <<>>, "", NoBody, NoSource)
  /\ UNCHANGED <<server, reads, call, workerReq, workerResp, httpReq, pure, workerLog, managerVars, ui>>

\* The lifetime of a stash ends.
Expire ==
  /\ \E id \in Ids :
       /\ server[id].st = "created"
       /\ server' = [server EXCEPT ![id] = [NoStash EXCEPT !.st = "expired"]]
  /\ UNCHANGED <<reads, call, workerReq, workerResp, httpReq, httpResp, pure, workerLog, managerVars, ui>>

\* A stored payload with one ciphertext byte changed.
TamperCiphertext(p) ==
  [p EXCEPT !.ciphertext = CtToBase64Url([CtFromBase64Url(@).val EXCEPT !.flip = 1])]

\* A stored payload with the first tag byte changed.
TamperTag(p) ==
  [p EXCEPT !.tag = arrayBufferToBase64Url(
      [base64UrlToBytes(@).val EXCEPT ![1] = (@ + 1) % 256])]

\* Somebody changes a stored payload.
Tamper ==
  /\ \E id \in Ids :
       /\ server[id].st = "created"
       /\ server[id].src.tampered = "no"
       /\ \/ server' = [server EXCEPT ![id].payload = TamperCiphertext(@),
                                       ![id].src.tampered = "ciphertext"]
          \/ server' = [server EXCEPT ![id].payload = TamperTag(@),
                                       ![id].src.tampered = "tag"]
  /\ UNCHANGED <<reads, call, workerReq, workerResp, httpReq, httpResp, pure, workerLog, managerVars, ui>>

\* ------------------------------------------------------------ crypto worker

\* self.onmessage: one request of the manager handled, and the response that
\* settles it posted.  (The failure the handler posts after the result of an
\* encrypt finds no entry in pendingRequests and is dropped by the manager.)
WorkerOnMessage ==
  /\ workerReq.action # "none"
  /\ \/ /\ workerReq.action = "encrypt"
        /\ \E key \in KeyPool, iv \in IvPool :
             workerResp' = [ready |-> TRUE, res |-> WorkerEncrypt(workerReq.secret, key, iv),
                            action |-> "encrypt", keyBuffer |-> <<>>]
     \/ /\ workerReq.action = "decrypt"
        /\ workerResp' = [ready |-> TRUE,
                          res |-> WorkerDecrypt(workerReq.payload, workerReq.keyBuffer),
                          action |-> "decrypt",
                          keyBuffer |-> WorkerKeyAfterDecrypt(workerReq.payload, workerReq.keyBuffer)]
  /\ workerReq' = NoWorkerReq
  /\ UNCHANGED <<server, reads, call, httpReq, httpResp, pure, workerLog, managerVars, ui>>


\* ------------------------------------------------------------ stash protocol

NetworkError == "Failed to fetch"

\* performEnstash checking the length only
EnstashValidateLengthOnly(secret) ==
  IF ~validateSecretLength(secret) THEN Err("Secret too long (max 4096 characters)")
  ELSE Ok(secret)

\* performEnstash: the checks before the try block
EnstashValidate(secret) ==
  IF ~validateSecretContent(secret) THEN Err("Secret cannot be empty or whitespace only")
  ELSE IF ~validateSecretLength(secret) THEN Err("Secret too long (max 4096 characters)")
  ELSE Ok(secret)

\* manager.encrypt handed the trimmed secret
EncryptRequestTrimmed(secret) ==
  [NoWorkerReq EXCEPT !.action = "encrypt", !.secret = StrTrim(secret)]

\* manager.encrypt(secret): sendRequest('encrypt', {secret})
EncryptRequest(secret) == [NoWorkerReq EXCEPT !.action = "encrypt", !.secret = secret]

\* manager.decrypt(payload, keyBuffer): sendRequest('decrypt', {payload, keyBuffer})
DecryptRequest(payload, keyBuffer) ==
  [NoWorkerReq EXCEPT !.action = "decrypt", !.payload = payload, !.keyBuffer = keyBuffer]

\* performDestash taking the id of the token and leaving the key unchecked
DestashParseIdOnly(token) ==
  IF parseUUID(token) = <<>> THEN Err("Invalid Stash ID")
  ELSE Ok([id |-> parseUUID(token), keyBuffer |-> <<>>])

\* performDestash: decodeStashToken(token), then validateUUID(id)
DestashParse(token) ==
  LET d == decodeStashToken(token)
  IN IF ~d.ok THEN d
     ELSE IF ~validateUUID(d.val.id) THEN Err("Invalid Stash ID")
     ELSE d

\* performUnstash: the id of a token or the input itself, then validateUUID(id)
UnstashParse(tokenOrId) ==
  LET d == decodeStashToken(tokenOrId)
      id == IF IndexOf(tokenOrId, ":") # 0 THEN d.val.id ELSE tokenOrId
  IN IF IndexOf(tokenOrId, ":") # 0 /\ ~d.ok THEN d
     ELSE IF ~validateUUID(id) THEN Err("Invalid Stash ID")
     ELSE Ok([id |-> id, keyBuffer |-> <<>>])

\* The error of a response that is not ok when 404 and 410 are not told apart
\* from other failures
StatusErrorUnmapped(resp) == Err("API error")

\* new Error(`API error: ${response.status} ${errorText}`)
ApiErrorOf(resp) ==
  [ok |-> FALSE, val |-> <<>>, err |-> "API error", status |-> resp.status, body |-> resp.error]

\* The error of a response that is not ok when the body of a 410 is not read
StatusErrorNoDiscriminator(resp) ==
  IF resp.status = 404 THEN Err("Stash not found")
  ELSE IF resp.status = 410 THEN Err("This stash has already been consumed")
  ELSE ApiErrorOf(resp)

\* performDestash / performUnstash: the error of a response that is not ok
StatusError(resp) ==
  IF resp.status = 404 THEN Err("Stash not found")
  ELSE IF resp.status = 410
       THEN (IF resp.error = "Expired" THEN Err("This stash has expired")
             ELSE Err("This stash has already been consumed"))
  ELSE ApiErrorOf(resp)

Started(op, secret, token) ==
  [NoCall EXCEPT !.op = op, !.pc = "start", !.secret = secret, !.token = token]

Finished(c, out) == [c EXCEPT !.pc = "done", !.out = out]

\* performEnstash(secret), to the first await: validation, then the encrypt
\* request to the crypto worker.
StartEnstash ==
  /\ call = NoCall
  /\ \E secret \in SecretInputs :
       LET c == Started("enstash", secret, <<>>)
           v == EnstashValidate(secret)
       IN IF ~v.ok
          THEN /\ call' = Finished(c, v)
               /\ UNCHANGED workerReq
          ELSE /\ call' = [c EXCEPT !.pc = "crypto", !.nenc = 1]
               /\ workerReq' = EncryptRequest(secret)
  /\ workerResp' = NoWorkerResp
  /\ httpReq' = NoRequest
  /\ httpResp' = NoResponse
  /\ UNCHANGED <<server, reads, pure, workerLog, managerVars, ui>>

\* performEnstash, from the worker's response to the fetch: the payload is
\* decoded (encrypt of crypto.ts), encoded again (createPayload) and posted.
EnstashAfterEncrypt ==
  /\ call.op = "enstash"
  /\ call.pc = "crypto"
  /\ workerResp.ready
  /\ LET e == IF workerResp.res.ok THEN encrypt(workerResp.res.val) ELSE workerResp.res
     IN IF ~e.ok
        THEN /\ call' = Finished(call, e)
             /\ UNCHANGED httpReq
        ELSE /\ call' = [call EXCEPT !.pc = "fetch", !.key = e.val.keyBuffer, !.nreq = @ + 1]
             /\ httpReq' = EnstashRequest(createPayload(e.val))
  /\ workerResp' = NoWorkerResp
  /\ UNCHANGED <<server, reads, workerReq, httpResp, pure, workerLog, managerVars, ui>>

\* performEnstash, from the response of the API to the end.
EnstashAfterFetch ==
  /\ call.op = "enstash"
  /\ call.pc = "fetch"
  /\ httpResp.status # 0
  /\ LET c == [call EXCEPT !.status = httpResp.status]
     IN call' =
          IF httpResp.status = -1 THEN Finished(c, Err(NetworkError))
          ELSE IF ~ResponseOk(httpResp) THEN Finished(c, ApiErrorOf(httpResp))
          ELSE Finished([c EXCEPT !.id = httpResp.id], formatStashToken(httpResp.id, call.key))
  /\ httpReq' = NoRequest
  /\ httpResp' = NoResponse
  /\ UNCHANGED <<server, reads, workerReq, workerResp, pure, workerLog, managerVars, ui>>

\* performDestash(token), to the first await: the token is parsed, then the GET.
StartDestash ==
  /\ call = NoCall
  /\ \E token \in DestashInputs :
       LET c == Started("destash", <<>>, token)
           d == DestashParse(token)
       IN IF ~d.ok
          THEN /\ call' = Finished(c, d)
               /\ httpReq' = NoRequest
          ELSE /\ call' = [c EXCEPT !.pc = "fetch", !.id = d.val.id, !.key = d.val.keyBuffer, !.nreq = 1]
               /\ httpReq' = DestashRequest(d.val.id)
  /\ httpResp' = NoResponse
  /\ workerReq' = NoWorkerReq
  /\ workerResp' = NoWorkerResp
  /\ UNCHANGED <<server, reads, pure, workerLog, managerVars, ui>>

\* performDestash sending the GET again when the first one failed
DestashAfterFetchRetry ==
  /\ call.op = "destash"
  /\ call.pc = "fetch"
  /\ httpResp.status # 0
  /\ LET c == [call EXCEPT !.status = httpResp.status, !.src = httpResp.src]
     IN IF ~ResponseOk(httpResp) /\ call.nreq < 2
        THEN /\ call' = [c EXCEPT !.nreq = @ + 1]
             /\ httpReq' = DestashRequest(call.id)
             /\ UNCHANGED workerReq
        ELSE IF ~ResponseOk(httpResp)
        THEN /\ call' = Finished(c, StatusError(httpResp))
             /\ httpReq' = NoRequest
             /\ UNCHANGED workerReq
        ELSE /\ call' = [c EXCEPT !.pc = "crypto", !.ndec = 1, !.payload = httpResp.payload]
             /\ httpReq' = NoRequest
             /\ workerReq' = DecryptRequest(httpResp.payload, call.key)
  /\ httpResp' = NoResponse
  /\ UNCHANGED <<server, reads, workerResp, pure, workerLog, managerVars, ui>>

\* performDestash, from the response of the API to the decrypt request.
DestashAfterFetch ==
  /\ call.op = "destash"
  /\ call.pc = "fetch"
  /\ httpResp.status # 0
  /\ LET c == [call EXCEPT !.status = httpResp.status, !.src = httpResp.src]
     IN IF httpResp.status = -1
        THEN /\ call' = Finished(c, Err(NetworkError))
             /\ UNCHANGED workerReq
        ELSE IF ~ResponseOk(httpResp)
        THEN /\ call' = Finished(c, StatusError(httpResp))
             /\ UNCHANGED workerReq
        ELSE /\ call' = [c EXCEPT !.pc = "crypto", !.ndec = 1, !.payload = httpResp.payload]
             /\ workerReq' = DecryptRequest(httpResp.payload, call.key)
  /\ httpReq' = NoRequest
  /\ httpResp' = NoResponse
  /\ UNCHANGED <<server, reads, workerResp, pure, workerLog, managerVars, ui>>

\* performDestash returning an empty secret when the worker reports a failure
DestashAfterDecryptSwallowed ==
  /\ call.op = "destash"
  /\ call.pc = "crypto"
  /\ workerResp.ready
  /\ call' = Finished(call, IF workerResp.res.ok THEN workerResp.res ELSE Ok(<<>>))
  /\ reads' = [reads EXCEPT ![call.id] = @ + 1]
  /\ workerResp' = NoWorkerResp
  /\ UNCHANGED <<server, workerReq, httpReq, httpResp, pure, workerLog, managerVars, ui>>

\* performDestash, from the worker's response to the end.
DestashAfterDecrypt ==
  /\ call.op = "destash"
  /\ call.pc = "crypto"
  /\ workerResp.ready
  /\ call' = Finished(call, workerResp.res)
  /\ reads' = IF workerResp.res.ok THEN [reads EXCEPT ![call.id] = @ + 1] ELSE reads
  /\ workerResp' = NoWorkerResp
  /\ UNCHANGED <<server, workerReq, httpReq, httpResp, pure, workerLog, managerVars, ui>>

\* performUnstash(tokenOrId), to the await: the id is extracted, then the DELETE.
StartUnstash ==
  /\ call = NoCall
  /\ \E tokenOrId \in UnstashInputs :
       LET c == Started("unstash", <<>>, tokenOrId)
           d == UnstashParse(tokenOrId)
       IN IF ~d.ok
          THEN /\ call' = Finished(c, d)
               /\ httpReq' = NoRequest
          ELSE /\ call' = [c EXCEPT !.pc = "fetch", !.id = d.val.id, !.nreq = 1]
               /\ httpReq' = UnstashRequest(d.val.id)
  /\ httpResp' = NoResponse
  /\ workerReq' = NoWorkerReq
  /\ workerResp' = NoWorkerResp
  /\ UNCHANGED <<server, reads, pure, workerLog, managerVars, ui>>

\* performUnstash, from the response of the API to the end.
UnstashAfterFetch ==
  /\ call.op = "unstash"
  /\ call.pc = "fetch"
  /\ httpResp.status # 0
  /\ LET c == [call EXCEPT !.status = httpResp.status, !.src = httpResp.src]
     IN call' =
          IF httpResp.status = -1 THEN Finished(c, Err(NetworkError))
          ELSE IF ~ResponseOk(httpResp) THEN Finished(c, StatusError(httpResp))
          ELSE Finished(c, Ok([deleted |-> httpResp.id]))
  /\ httpReq' = NoRequest
  /\ httpResp' = NoResponse
  /\ UNCHANGED <<server, reads, workerReq, workerResp, pure, workerLog, managerVars, ui>>

\* The caller takes the outcome of the call (the click handler of the page shows
\* it and enables the buttons again).
Return ==
  /\ call.op # "none"
  /\ call.pc = "done"
  /\ call' = NoCall
  /\ UNCHANGED <<server, reads, workerReq, workerResp, httpReq, httpResp, pure, workerLog, managerVars, ui>>

Next ==
  \/ StartEnstash \/ EnstashAfterEncrypt \/ EnstashAfterFetch
  \/ StartDestash \/ DestashAfterFetch \/ DestashAfterDecrypt
  \/ StartUnstash \/ UnstashAfterFetch
  \/ Return
  \/ WorkerOnMessage
  \/ ApiEnstash \/ ApiDestashFound \/ ApiDestashGone \/ ApiUnstashFound \/ ApiUnstashGone
  \/ ApiError \/ NetworkFailure \/ Expire \/ Tamper

Spec == Init /\ [][Next]_vars


\* ------------------------------------------------------------ any response

\* A server that is not held to the wire contract.  It answers the POST with
\* 201 and an id that is a UUID-v4, one of version 1, or none (the token then
\* reads "undefined"), and stores nothing the model tracks.
ForeignIds ==
  { UuidOf("b", "4", "9"),
    UuidOf("a", "1", "8"),
    <<"u", "n", "d", "e", "f", "i", "n", "e", "d">> }

ApiEnstashAnyId ==
  /\ Pending("POST")
  /\ \E id \in ForeignIds : httpResp' = Response(201, id, "", NoBody, NoSource)
  /\ UNCHANGED <<server, reads, call, workerReq, workerResp, httpReq, pure, workerLog, managerVars, ui>>

\* A payload another client made with the key: the secret encrypted as the
\* worker does, without the worker's length check.
ForeignPayload(secret, key, iv) ==
  LET secretBytes == TextEncode(secret)
  IN createPayload([keyBuffer |-> key, iv |-> iv,
                    ciphertext |-> AesGcmCiphertext(key, iv, secretBytes),
                    tag |-> AesGcmTag(key, iv, secretBytes)])

\* Bodies of a 2xx answer to the GET: a ciphertext of 16385 bytes, of 16384
\* bytes, an empty ciphertext, an iv of 11 bytes, a tag of 15 bytes.  They are
\* sent as long as no destash call has returned a secret.
ForeignBodies(key) ==
  { ForeignPayload(<<Run(97, MAX_CIPHERTEXT_BYTES + 1)>>, key, Iv(3)),
    ForeignPayload(<<Run(97, MAX_CIPHERTEXT_BYTES)>>, key, Iv(3)),
    ForeignPayload(<<>>, key, Iv(3)),
    [ForeignPayload(<<Run(97, 2)>>, key, Iv(3)) EXCEPT
       !.iv = arrayBufferToBase64Url(SubSeq(Iv(3), 1, IV_LENGTH - 1))],
    [ForeignPayload(<<Run(97, 2)>>, key, Iv(3)) EXCEPT
       !.tag = arrayBufferToBase64Url(SubSeq(AesGcmTag(key, Iv(3), TextEncode(<<Run(97, 2)>>)),
                                             1, TAG_LENGTH - 1))] }

ApiDestashAnyBody ==
  /\ Pending("GET")
  /\ \A id \in Ids : reads[id] = 0
  /\ \E key \in KeyPool : \E body \in ForeignBodies(key) :
       httpResp' = Response(200, <<>>, "", body,
                            [NoSource EXCEPT !.secret = TextDecode(body.ciphertext.b64.pt),
                                             !.key = key, !.st = "foreign"])
  /\ UNCHANGED <<server, reads, call, workerReq, workerResp, httpReq, pure, workerLog, managerVars, ui>>

\* The stash protocol with a server that may answer the POST with any id
NextAnyId == Next \/ ApiEnstashAnyId

SpecAnyId == Init /\ [][NextAnyId]_vars

\* The stash protocol with a server that may answer the GET with any body
NextAnyBody == Next \/ ApiDestashAnyBody

SpecAnyBody == Init /\ [][NextAnyBody]_vars

\* ------------------------------------------------------------ functions applied alone

\* Ids of the UUID-v4 shape, in lower, upper and mixed case.
UuidInputs ==
  {UuidOf(h, "4", r) : h \in {"0", "a", "F"}, r \in {"8", "9", "a", "b", "A", "B"}}
    \cup { <<"1","2","3","e","4","5","6","7","-","E","8","9","b","-","4","2","d","3","-",
             "a","4","5","6","-","4","2","6","6","1","4","1","7","4","0","0","0">> }

\* Keys of 32 bytes: all bits clear, all set, the ones whose text is made of
\* '-' and '_', and mixed ones.
KeyInputs ==
  { Rep(0, KEY_LENGTH), Rep(255, KEY_LENGTH), Rep(251, KEY_LENGTH),
    [i \in 1..KEY_LENGTH |-> IF i % 3 = 0 THEN 239 ELSE IF i % 3 = 1 THEN 251 ELSE 190] }
    \cup KeyPool

\* Secrets handed to the cipher engine: one blank, short ones, and the ones
\* around 4096 UTF-16 code units and 4096 UTF-8 bytes.
CipherSecretInputs ==
  SecretInputs
    \cup { <<Run(32, 1)>>,
           <<Run(97, 1)>>,
           <<Run(128512, 1)>>,
           <<Run(233, 2048)>>,
           <<Run(8364, 1365)>>,
           <<Run(97, 1), Run(8364, 1365)>>,
           <<Run(128512, 1024)>>,
           <<Run(128512, 2048)>>,
           <<Run(128512, 2049)>>,
           <<Run(97, 4095), Run(233, 1)>>,
           <<Run(8364, 4096)>>,
           <<Run(8364, 4097)>> }

protocolVars ==
  <<server, reads, call, workerReq, workerResp, httpReq, httpResp, workerLog, managerVars, ui>>

\* formatStashToken(id, key), then decodeStashToken of the token
ApplyToken ==
  /\ pure = NoPure
  /\ \E id \in UuidInputs, key \in KeyInputs :
       pure' = [f |-> "token", id |-> id, key |-> key,
                token |-> formatStashToken(id, key),
                parsed |-> decodeStashToken(formatStashToken(id, key).val)]
  /\ UNCHANGED protocolVars

\* The worker's encrypt of a secret, then its decrypt of the result
ApplyCipher ==
  /\ pure = NoPure
  /\ \E secret \in CipherSecretInputs, key \in KeyPool, iv \in IvPool :
       LET enc == WorkerEncrypt(secret, key, iv)
       IN pure' = [f |-> "cipher", secret |-> secret, key |-> key, iv |-> iv,
                   enc |-> enc,
                   dec |-> IF enc.ok THEN WorkerDecrypt(enc.val.payload, enc.val.keyBuffer)
                           ELSE Err("not encrypted")]
  /\ UNCHANGED protocolVars

\* Token texts beyond those destash is called with: a second colon after the
\* key, a second colon before the id, blanks around the colon, a key text with
\* '=', key texts of 42 and 45 characters, a blank id, a blank key, key texts of
\* 41, 44, 20003 and 20004 characters, a key text with '+'.
DecodeInputs ==
  DestashInputs
    \cup { UuidOf("a", "4", "8") \o <<":">> \o KeyText(Key(0)) \o <<":">>,
           UuidOf("a", "4", "8") \o <<":">> \o KeyText(Key(0)) \o <<":", "x">>,
           <<"x", ":">> \o UuidOf("a", "4", "8") \o <<":">> \o KeyText(Key(0)),
           UuidOf("E", "4", "B") \o <<" ", ":", "\t">> \o KeyText(Key(255)),
           UuidOf("a", "4", "8") \o <<":">> \o Rep("A", 42) \o <<"=">>,
           UuidOf("a", "4", "8") \o <<":">> \o Rep("A", 42),
           UuidOf("a", "4", "8") \o <<":">> \o Rep("A", 45),
           <<" ", ":">> \o KeyText(Key(0)),
           UuidOf("a", "4", "8") \o <<":", " ">>,
           UuidOf("a", "4", "8") \o <<"0", ":">> \o KeyText(Key(0)),
           UuidOf("g", "4", "8") \o <<":">> \o KeyText(Key(0)),
           UuidOf("a", "4", "8") \o <<":">> \o Rep("_", 43),
           UuidOf("a", "4", "8") \o <<":">> \o Rep("A", 43),
           UuidOf("a", "4", "8") \o <<":">> \o Rep("A", 41),
           UuidOf("a", "4", "8") \o <<":">> \o Rep("A", 44),
           UuidOf("a", "4", "8") \o <<":">> \o Rep("A", 20003),
           UuidOf("a", "4", "8") \o <<":">> \o Rep("A", 20004),
           UuidOf("a", "4", "8") \o <<":">> \o Rep("A", 42) \o <<"+">> }

\* decodeStashToken(token)
ApplyDecode ==
  /\ pure = NoPure
  /\ \E token \in DecodeInputs :
       pure' = [f |-> "decode", token |-> token, parsed |-> decodeStashToken(token),
                steps |-> decodeStashTokenTraced(token).steps]
  /\ UNCHANGED protocolVars

\* JSON payloads: texts of every length around the ones of 12 bytes (16
\* characters), 16 bytes (22) and 16384 bytes (21846), of the lengths 0 to 5,
\* with a character outside the alphabet, and values that are no object or
\* lack a string field.
PayloadOf(iv, tag, ciphertext) ==
  JsonObject([iv |-> JsonString(iv), tag |-> JsonString(tag), ciphertext |-> JsonString(ciphertext)])

PayloadInputs ==
  { PayloadOf(Rep("A", n), Rep("_", 22), Rep("A", 4)) : n \in {0, 15, 16, 17, 18} }
    \cup { PayloadOf(Rep("-", 16), Rep("A", n), Rep("A", 4)) : n \in {0, 21, 22, 23, 24} }
    \cup { PayloadOf(Rep("A", 16), Rep("A", 22), Rep("A", n)) :
             n \in {0, 1, 2, 3, 4, 5, 21845, 21846, 21847, 21848} }
    \cup { PayloadOf(Rep("A", 15) \o <<"+">>, Rep("A", 22), Rep("A", 4)),
           PayloadOf(Rep("A", 16), Rep("A", 21) \o <<"=">>, Rep("A", 4)),
           PayloadOf(Rep("A", 16), Rep("A", 22), <<"A", "A", "A", "/">>),
           [t |-> "notstring"], [t |-> "malformed"], [t |-> "null"], JsonNumber, JsonString(<<"i", "v">>),
           JsonObject([tag |-> JsonString(Rep("A", 22)), ciphertext |-> JsonString(Rep("A", 4))]),
           JsonObject([iv |-> JsonNumber, tag |-> JsonString(Rep("A", 22)),
                       ciphertext |-> JsonString(Rep("A", 4))]),
           JsonObject([iv |-> JsonString(Rep("A", 16)), tag |-> JsonNumber,
                       ciphertext |-> JsonString(Rep("A", 4))]),
           JsonObject([iv |-> JsonString(Rep("A", 16)), tag |-> JsonString(Rep("A", 22))]) }

\* parsePayload(encoded)
ApplyParsePayload ==
  /\ pure = NoPure
  /\ \E data \in PayloadInputs :
       pure' = [f |-> "payload", data |-> data, parsed |-> parsePayload(data)]
  /\ UNCHANGED protocolVars

\* Arguments of parseUUID: the token texts of decodeStashToken, the arguments of
\* unstash, bare ids with blanks around them or in upper case, near-ids, and
\* values that are no string.
UuidArguments ==
  { JsonString(t) : t \in DecodeInputs \cup UnstashInputs }
    \cup { JsonString(<<"\t">> \o UuidOf("C", "4", "9") \o <<" ", "\n">>),
           JsonString(UuidOf("a", "4", "8") \o <<" ", "x">>),
           JsonString(<<":">>),
           JsonString(<<" ">>),
           JsonString(<<":">> \o UuidOf("a", "4", "8")),
           JsonString(<<" ">> \o UuidOf("f", "4", "b") \o <<" ", ":">>),
           JsonNumber, Undefined, [t |-> "null"] }

\* parseUUID(token), beside decodeStashToken(token)
ApplyParseUUID ==
  /\ pure = NoPure
  /\ \E v \in UuidArguments :
       pure' = [f |-> "uuid", value |-> v, id |-> parseUUIDOfValue(v),
                decoded |-> decodeStashTokenOfValue(v)]
  /\ UNCHANGED protocolVars

\* Arguments of decryptSecret: the payload the worker made for a two-byte
\* secret, also with an iv text of 15, 17 or 18 characters or with a '+', with
\* a tag text of 21 or 23 characters or with a '=', and the same tag cut to 15
\* bytes; keys of 0, 31, 32 and 33 bytes, the right one and another one.
DecryptKey == Key(0)
DecryptPayload == WorkerEncrypt(<<Run(97, 2)>>, DecryptKey, Iv(3)).val.payload

DecryptPayloads ==
  { DecryptPayload }
    \cup { [DecryptPayload EXCEPT !.iv = t] :
             t \in { <<>>, SubSeq(DecryptPayload.iv, 1, 15), DecryptPayload.iv \o <<"A">>,
                     DecryptPayload.iv \o <<"A", "A">>,
                     SubSeq(DecryptPayload.iv, 1, 15) \o <<"+">> } }
    \cup { [DecryptPayload EXCEPT !.tag = t] :
             t \in { <<>>, SubSeq(DecryptPayload.tag, 1, 21), SubSeq(DecryptPayload.tag, 1, 20),
                     DecryptPayload.tag \o <<"A">>,
                     SubSeq(DecryptPayload.tag, 1, 21) \o <<"=">> } }
    \cup { [DecryptPayload EXCEPT !.iv = SubSeq(DecryptPayload.iv, 1, 15),
                                  !.tag = SubSeq(DecryptPayload.tag, 1, 20)] }

DecryptKeys ==
  { <<>>, SubSeq(DecryptKey, 1, KEY_LENGTH - 1), DecryptKey, DecryptKey \o <<0>>, Key(255) }

\* decryptSecret(payload, keyBuffer)
ApplyDecrypt ==
  /\ pure = NoPure
  /\ \E payload \in DecryptPayloads, keyBuffer \in DecryptKeys :
       pure' = [f |-> "decrypt", payload |-> payload, keyBuffer |-> keyBuffer,
                traced |-> decryptSecretTraced(payload, keyBuffer)]
  /\ UNCHANGED protocolVars

\* Texts over the base64url alphabet of every length from 1 to 24, whose last
\* character leaves bits beyond the last whole byte or none
LengthTexts ==
  { Rep("A", k) \o <<c>> : k \in 0..23, c \in {"A", "_", "-", "z"} }

\* The byte counts asked for
LengthCounts == 0..18

\* assertB64UrlLen(s, n, what), beside base64UrlToBytes(s)
ApplyLength ==
  /\ pure = NoPure
  /\ \E s \in LengthTexts, n \in LengthCounts :
       pure' = [f |-> "length", s |-> s, n |-> n,
                passes |-> assertB64UrlLen(s, n),
                bytes |-> base64UrlToBytes(s)]
  /\ UNCHANGED protocolVars

\* Secrets whose payload is parsed: the ones handed to enstash, secrets of one
\* character of one, three and four bytes, a blank one, and the longest ones in
\* bytes with 4096 and 4097 UTF-16 units.
PayloadSecrets ==
  SecretInputs
    \cup { <<Run(32, 1)>>,
           <<Run(97, 1)>>,
           <<Run(8364, 1)>>,
           <<Run(128512, 1)>>,
           <<Run(8364, 4096)>>,
           <<Run(8364, 4097)>> }

\* The JSON text of a payload, parsed: its three texts as strings
PayloadJson(payload) == PayloadOf(payload.iv, payload.tag, CtText(payload.ciphertext))

\* The number of bytes base64UrlToBytes gives for a text, -1 when it throws
BytesOf(text) ==
  LET r == base64UrlToBytes(text) IN IF r.ok THEN Len(r.val) ELSE -1

\* The checks of performEnstash on a secret, the worker's encrypt of it, and
\* parsePayload on the JSON text of the payload
ApplyPayload ==
  /\ pure = NoPure
  /\ \E secret \in PayloadSecrets, key \in {Key(255)}, iv \in {Iv(3)} :
       LET enc == WorkerEncrypt(secret, key, iv)
           json == PayloadJson(enc.val.payload)
           parsed == parsePayload(json)
       IN pure' = [f |-> "produce", secret |-> secret, key |-> key, iv |-> iv,
                   valid |-> EnstashValidate(secret).ok,
                   encrypted |-> enc.ok,
                   accepted |-> enc.ok /\ parsed.ok,
                   err |-> IF enc.ok THEN parsed.err ELSE enc.err,
                   ivBytes |-> IF enc.ok THEN BytesOf(json.fields.iv.s) ELSE -1,
                   tagBytes |-> IF enc.ok THEN BytesOf(json.fields.tag.s) ELSE -1,
                   ctBytes |-> IF enc.ok THEN BytesOf(json.fields.ciphertext.s) ELSE -1]
  /\ UNCHANGED protocolVars

\* Messages to the worker: ids that are a string, the empty string, a number
\* or absent; actions likewise, with one the worker does not know; data for
\* encrypt and for decrypt, whole and lacking, null and a string; and a message
\* that is no object.
StringValue(s) == [t |-> "string", s |-> s]

MessageData(secret, payload, keyBuffer) ==
  [t |-> "object", secret |-> secret, payload |-> payload, keyBuffer |-> keyBuffer]

PayloadValue(payload) == [t |-> "object", v |-> payload]
BytesValue(bytes) == [t |-> "bytes", v |-> bytes]

MessageIds == {StringValue("req-1"), StringValue(""), JsonNumber, Undefined}

MessageActions ==
  {StringValue("encrypt"), StringValue("decrypt"), StringValue("wipe"), StringValue(""), Undefined}

MessageDatas ==
  { MessageData(JsonString(<<Run(97, 2)>>), Undefined, Undefined),
    MessageData(JsonString(<<>>), Undefined, Undefined),
    MessageData(JsonString(<<Run(97, 4097)>>), Undefined, Undefined),
    MessageData(Undefined, Undefined, Undefined),
    MessageData(Undefined, PayloadValue(DecryptPayload), BytesValue(DecryptKey)),
    MessageData(Undefined, PayloadValue(DecryptPayload), BytesValue(Key(255))),
    MessageData(Undefined, PayloadValue([DecryptPayload EXCEPT !.iv = <<>>]), BytesValue(DecryptKey)),
    MessageData(Undefined, PayloadValue(DecryptPayload), Undefined),
    [t |-> "null"],
    JsonString(<<"x">>),
    Undefined }

WorkerMessages ==
  { [t |-> "object", id |-> id, action |-> action, data |-> data] :
      id \in MessageIds, action \in MessageActions, data \in MessageDatas }
    \cup { [t |-> "null"], JsonNumber }

\* self.onmessage on one message
ApplyOnMessage ==
  /\ pure = NoPure
  /\ \E msg \in WorkerMessages :
       pure' = [f |-> "onmessage", msg |-> msg, posted |-> onmessage(msg, Key(255), Iv(3))]
  /\ UNCHANGED protocolVars

FunctionsNext ==
  \/ ApplyToken \/ ApplyCipher \/ ApplyDecode \/ ApplyParsePayload \/ ApplyParseUUID
  \/ ApplyDecrypt
  \/ ApplyLength
  \/ ApplyPayload
  \/ ApplyOnMessage

SpecFunctions == Init /\ [][FunctionsNext]_vars


\* ------------------------------------------------------------ encryptions in a row

\* encryptSecret is called this many times.
MaxEncrypts == 2

\* The secrets encrypted: none, one of one byte, of two bytes, of three bytes.
EncryptSecrets == {<<>>, <<Run(97, 1)>>, <<Run(97, 2)>>, <<Run(8364, 1)>>}

\* encryptSecret with the iv of the first call kept for the later ones
EncryptLoggedSameIv(log, secret, key, iv) ==
  LET first == IF log.drawn = <<>> THEN iv ELSE log.drawn[2]
      r == WorkerEncrypt(secret, key, first)
  IN IF ~r.ok THEN log
     ELSE [drawn |-> log.drawn \o <<key, iv>>,
           encrypted |-> Append(log.encrypted, [secret |-> secret, result |-> r.val])]

\* encryptSecret(secret) in the worker: when the secret passes the checks,
\* generateKey gives key and randomBytes(IV_LENGTH) gives iv, and the result
\* is posted.
EncryptLogged(log, secret, key, iv) ==
  LET r == WorkerEncrypt(secret, key, iv)
  IN IF ~r.ok THEN log
     ELSE [drawn |-> log.drawn \o <<key, iv>>,
           encrypted |-> Append(log.encrypted, [secret |-> secret, result |-> r.val])]

\* One more encrypt request handled by the worker.
EncryptAgain ==
  /\ Len(workerLog.encrypted) < MaxEncrypts
  /\ \E secret \in EncryptSecrets, key \in KeyPool, iv \in IvPool :
       workerLog' = EncryptLogged(workerLog, secret, key, iv)
  /\ UNCHANGED <<server, reads, call, workerReq, workerResp, httpReq, httpResp, pure, managerVars, ui>>

EncryptsNext == EncryptAgain

SpecEncrypts == Init /\ [][EncryptsNext]_vars

\* ------------------------------------------------------------ concurrent calls and the crypto manager

sequentialVars ==
  <<server, reads, call, workerReq, workerResp, httpReq, httpResp, pure, workerLog, ui>>

\* What concurrent callers pass: a valid and an empty secret, a token of a
\* stored stash and a text without colon.
ConcurrentSecrets == { <<Run(97, 2)>>, <<>> }
StoredId == UuidOf("a", "4", "8")
ConcurrentTokens == { StoredId \o <<":">> \o KeyText(Key(0)), StoredId }

\* The key the worker generates for the request of caller i, and the id the
\* server assigns to the stash of caller i.
DrawnKey(i) == IF i % 2 = 1 THEN Key(0) ELSE Key(255)
AssignedId(i) == IF i % 2 = 1 THEN UuidOf("E", "4", "B") ELSE UuidOf("a", "4", "8")

\* The payload the server holds for the stored stash.
StoredPayload == WorkerEncrypt(<<Run(97, 2)>>, Key(0), Iv(3)).val.payload

\* The promise of the crypto request of call c is resolved or rejected with res:
\* encrypt / decrypt of crypto.ts return or throw, and the operation goes on:
\* performEnstash to its fetch, or to its finally block with the error;
\* performDestash to its finally block.
Settled(c, res) ==
  IF c.op = "enstash" /\ res.ok /\ encrypt(res.val).ok
  THEN [c EXCEPT !.res = res, !.settled = @ + 1, !.pc = "fetch",
                 !.key = res.val.keyBuffer, !.payload = createPayload(encrypt(res.val).val),
                 !.nreq = @ + 1]
  ELSE [c EXCEPT !.res = res, !.settled = @ + 1, !.pc = "finally",
                 !.out = IF res.ok THEN encrypt(res.val) ELSE res]

SettledDestash(c, res) == [c EXCEPT !.res = res, !.settled = @ + 1, !.pc = "finally", !.out = res]

SettledOf(c, res) == IF c.op = "enstash" THEN Settled(c, res) ELSE SettledDestash(c, res)

\* The calls whose request is in pendingRequests of manager m
PendingCalls(m) ==
  {c \in Callers : calls[c].pc = "crypto" /\ calls[c].m = m /\ calls[c].req \in managers[m].pending}

\* performEnstash(secret), to the await of encrypt (the import of crypto-manager)
CallEnstash(i) ==
  /\ calls[i].pc = "idle"
  /\ \E secret \in ConcurrentSecrets :
       LET c == [calls[i] EXCEPT !.op = "enstash", !.secret = secret]
           v == EnstashValidate(secret)
       IN calls' = [calls EXCEPT ![i] =
            IF ~v.ok THEN [c EXCEPT !.pc = "done", !.out = v] ELSE [c EXCEPT !.pc = "import"]]
  /\ UNCHANGED <<cryptoManager, managers, sequentialVars>>

\* performDestash(token), to the await of fetch, or to the await of its finally
\* block when the token is rejected
CallDestash(i) ==
  /\ calls[i].pc = "idle"
  /\ \E token \in ConcurrentTokens :
       LET c == [calls[i] EXCEPT !.op = "destash", !.token = token]
           d == DestashParse(token)
       IN calls' = [calls EXCEPT ![i] =
            IF ~d.ok THEN [c EXCEPT !.pc = "finally", !.out = d]
            ELSE [c EXCEPT !.pc = "fetch", !.id = d.val.id, !.key = d.val.keyBuffer, !.nreq = 1]]
  /\ UNCHANGED <<cryptoManager, managers, sequentialVars>>

\* What concurrent callers pass to unstash: the id of the stored stash, nothing
ConcurrentIds == { StoredId, <<>> }

\* performUnstash(tokenOrId), to the await of fetch; it has no finally block
\* and imports neither crypto.ts's encrypt / decrypt nor the crypto manager.
CallUnstash(i) ==
  /\ calls[i].pc = "idle"
  /\ \E tokenOrId \in ConcurrentIds :
       LET c == [calls[i] EXCEPT !.op = "unstash", !.token = tokenOrId]
           d == UnstashParse(tokenOrId)
       IN calls' = [calls EXCEPT ![i] =
            IF ~d.ok THEN [c EXCEPT !.pc = "done", !.out = d]
            ELSE [c EXCEPT !.pc = "fetch", !.id = d.val.id, !.nreq = 1]]
  /\ UNCHANGED <<cryptoManager, managers, sequentialVars>>

\* The response of the API arrives: for enstash 2xx with an id or a failure,
\* for destash 2xx with the stored payload or 404, for unstash 2xx or 404.
Fetched(i) ==
  /\ calls[i].pc = "fetch"
  /\ \/ /\ calls[i].op = "enstash"
        /\ \/ calls' = [calls EXCEPT ![i] =
                [@ EXCEPT !.pc = "finally", !.status = 200, !.id = AssignedId(i),
                          !.out = formatStashToken(AssignedId(i), calls[i].key)]]
           \/ calls' = [calls EXCEPT ![i] = [@ EXCEPT !.pc = "finally", !.status = 500,
                                                      !.out = Err("API error")]]
     \/ /\ calls[i].op = "destash"
        /\ \/ calls' = [calls EXCEPT ![i] = [@ EXCEPT !.pc = "import", !.status = 200,
                                                      !.payload = StoredPayload]]
           \/ calls' = [calls EXCEPT ![i] = [@ EXCEPT !.pc = "finally", !.status = 404,
                                                      !.out = Err("Stash not found")]]
     \/ /\ calls[i].op = "unstash"
        /\ \/ calls' = [calls EXCEPT ![i] = [@ EXCEPT !.pc = "done", !.status = 200,
                                                      !.out = Ok([deleted |-> calls[i].id])]]
           \/ calls' = [calls EXCEPT ![i] = [@ EXCEPT !.pc = "done", !.status = 404,
                                                      !.out = Err("Stash not found")]]
  /\ UNCHANGED <<cryptoManager, managers, sequentialVars>>

\* encrypt / decrypt of crypto.ts after the import: getCryptoManager(), then
\* manager.encrypt / decrypt -> sendRequest, to its await of getWorker().
GetWorker(i) ==
  /\ calls[i].pc = "import"
  /\ LET m == IF cryptoManager = 0 THEN i ELSE cryptoManager
     IN /\ cryptoManager' = m
        /\ managers' = [managers EXCEPT ![m] =
             [@ EXCEPT !.created = TRUE, !.worker = IF @ = "none" THEN "alive" ELSE @]]
        /\ calls' = [calls EXCEPT ![i] = [@ EXCEPT !.pc = "post", !.m = m]]
  /\ UNCHANGED sequentialVars

\* sendRequest after the await: the id, the entry of pendingRequests with its
\* timer, worker.postMessage(request).  A terminated worker receives nothing.
SendRequest(i) ==
  /\ calls[i].pc = "post"
  /\ LET m == calls[i].m
         id == managers[m].requestId + 1
     IN /\ managers' = [managers EXCEPT ![m] =
             [@ EXCEPT !.requestId = id, !.pending = @ \cup {id},
                       !.inbox = IF managers[m].worker = "alive"
                                 THEN @ \cup {[id |-> id, caller |-> i]} ELSE @]]
        /\ calls' = [calls EXCEPT ![i] = [@ EXCEPT !.pc = "crypto", !.req = id]]
  /\ UNCHANGED <<cryptoManager, sequentialVars>>

\* The worker handles one request and posts its response; worker.onmessage of
\* the manager settles the pending request of that id, if there is one.
ManagerOnMessage(m) ==
  /\ managers[m].worker = "alive"
  /\ \E msg \in managers[m].inbox :
       LET c == calls[msg.caller]
       IN /\ managers' = [managers EXCEPT ![m] =
               [@ EXCEPT !.inbox = @ \ {msg}, !.pending = @ \ {msg.id}]]
          /\ IF msg.id \in managers[m].pending
             THEN calls' = [calls EXCEPT ![msg.caller] =
                    SettledOf(c, IF c.op = "enstash"
                                 THEN WorkerEncrypt(c.secret, DrawnKey(msg.caller), Iv(3))
                                 ELSE WorkerDecrypt(c.payload, c.key))]
             ELSE UNCHANGED calls
  /\ UNCHANGED <<cryptoManager, sequentialVars>>

\* The timer of a request that rejects and leaves the entry in pendingRequests
RequestTimeoutKeepsEntry(i) ==
  /\ calls[i].pc = "crypto"
  /\ calls[i].req \in managers[calls[i].m].pending
  /\ calls' = [calls EXCEPT ![i] = SettledOf(@, Err("Crypto operation timeout"))]
  /\ UNCHANGED <<cryptoManager, managers, sequentialVars>>

\* The timer of a request that is stopped when the worker is terminated
RequestTimeoutWhileAlive(i) ==
  /\ calls[i].pc = "crypto"
  /\ managers[calls[i].m].worker = "alive"
  /\ calls[i].req \in managers[calls[i].m].pending
  /\ managers' = [managers EXCEPT ![calls[i].m] = [@ EXCEPT !.pending = @ \ {calls[i].req}]]
  /\ calls' = [calls EXCEPT ![i] = SettledOf(@, Err("Crypto operation timeout"))]
  /\ UNCHANGED <<cryptoManager, sequentialVars>>

\* The 30 s timer of a request fires while its entry is in pendingRequests.
RequestTimeout(i) ==
  /\ calls[i].pc = "crypto"
  /\ calls[i].req \in managers[calls[i].m].pending
  /\ managers' = [managers EXCEPT ![calls[i].m] = [@ EXCEPT !.pending = @ \ {calls[i].req}]]
  /\ calls' = [calls EXCEPT ![i] = SettledOf(@, Err("Crypto operation timeout"))]
  /\ UNCHANGED <<cryptoManager, sequentialVars>>

\* worker.onerror: every pending request is rejected.
ManagerOnError(m) ==
  /\ managers[m].worker = "alive"
  /\ managers' = [managers EXCEPT ![m] = [@ EXCEPT !.pending = {}]]
  /\ calls' = [c \in Callers |->
       IF c \in PendingCalls(m) THEN SettledOf(calls[c], Err("Worker error")) ELSE calls[c]]
  /\ UNCHANGED <<cryptoManager, sequentialVars>>

\* terminate() of manager m: with a worker, every pending request is rejected
\* and the worker is terminated.
Terminated(m) ==
  IF managers[m].worker = "alive"
  THEN [managers EXCEPT ![m] = [@ EXCEPT !.pending = {}, !.worker = "terminated", !.inbox = {}]]
  ELSE managers

\* The finally block that leaves the crypto manager as it is
FinallyKeepsManager(i) ==
  /\ calls[i].pc = "finally"
  /\ calls' = [calls EXCEPT ![i] = [@ EXCEPT !.pc = "done"]]
  /\ UNCHANGED <<cryptoManager, managers, sequentialVars>>

\* The finally block of performEnstash / performDestash after its import:
\* terminateCryptoManager(), then the operation returns or throws.
Finally(i) ==
  /\ calls[i].pc = "finally"
  /\ IF cryptoManager # 0
     THEN /\ managers' = Terminated(cryptoManager)
          /\ calls' = [c \in Callers |->
               IF c = i THEN [calls[c] EXCEPT !.pc = "done"]
               ELSE IF managers[cryptoManager].worker = "alive" /\ c \in PendingCalls(cryptoManager)
                    THEN SettledOf(calls[c], Err("Worker terminated"))
               ELSE calls[c]]
     ELSE /\ calls' = [calls EXCEPT ![i] = [@ EXCEPT !.pc = "done"]]
          /\ UNCHANGED managers
  /\ cryptoManager' = 0
  /\ UNCHANGED sequentialVars

ManagerNext ==
  \E i \in Callers :
    \/ CallEnstash(i)
    \/ CallDestash(i)
    \/ CallUnstash(i)
    \/ Fetched(i)
    \/ GetWorker(i)
    \/ SendRequest(i)
    \/ ManagerOnMessage(i)
    \/ RequestTimeout(i)
    \/ ManagerOnError(i)
    \/ Finally(i)

SpecManager == Init /\ [][ManagerNext]_vars

\* The timer of sendRequest fires 30 s after it was set unless clearTimeout
\* stopped it: the timeout of a request is not postponed forever.
SpecManagerFair == SpecManager /\ \A i \in Callers : WF_vars(RequestTimeout(i))

\* ------------------------------------------------------------ the page

\* The page of stasher_app.ts.  performEnstash, performDestash and performUnstash
\* are promises here: a click handler awaits one and goes on when it settles,
\* with a text or with an error.  Timers are untimed: a timeout that is armed
\* may fire at any later step, since nothing bounds how long a fetch takes.

uiOthers ==
  <<server, reads, call, workerReq, workerResp, httpReq, httpResp, pure, workerLog, managerVars>>

\* The user clicks no button while this many erase timeouts are pending
MaxErase == 2

Cleared == <<"[", "c", "l", "e", "a", "r", "e", "d", "]">>

\* What the user types into #main-input
TypedInputs == {<<>>, <<" ">>, <<"s">>, <<" ", "s", "\t">>}

\* What an operation settles with: the text it returns, or the error it throws
Settlements == {Ok(<<"r">>), Err("Stash not found"), Err(NetworkError)}

\* The message of the click handler for an empty input
EmptyInputMessage(mode) ==
  IF mode = "enstash" THEN "Input secret to stash"
  ELSE IF mode = "destash" THEN "Input a stash id to retreive"
  ELSE "Input a stash id to unstash"

SuccessMessage(mode) ==
  IF mode = "enstash" THEN "Stash created"
  ELSE IF mode = "destash" THEN "Stash retrieved"
  ELSE "Stash deleted"

\* showMessage(text, isError)
showMessage(u, text, isError) == [u EXCEPT !.message = [text |-> text, error |-> isError]]

\* clearMessage()
clearMessage(u) == [u EXCEPT !.message = NoMessage]

\* resetIdleTimer(): the pending timeout is cleared and a new one is set
resetIdleTimer(u) == [u EXCEPT !.timer = "armed"]

\* The sequence s without its k-th element
Without(s, k) == [i \in 1..(Len(s) - 1) |-> IF i < k THEN s[i] ELSE s[i + 1]]

\* The click handler of an operation button that leaves the buttons enabled
UIClickButtonsEnabled(mode) ==
  /\ ~ui.closed
  /\ ~ui.disabled[mode]
  /\ ui.erasing < MaxErase
  /\ LET inputValue == Trim(ui.input)
     IN ui' = resetIdleTimer(
                IF inputValue = <<>>
                THEN showMessage(ui, EmptyInputMessage(mode), TRUE)
                ELSE [clearMessage(ui) EXCEPT
                        !.working = mode,
                        !.ops = Append(@, [mode |-> mode, input |-> inputValue])])
  /\ UNCHANGED uiOthers

\* A click on an operation button, to the await of the click handler.  A
\* disabled button dispatches no click.  The click bubbles to the window, whose
\* listener resets the idle timer.
UIClick(mode) ==
  /\ ~ui.closed
  /\ ~ui.disabled[mode]
  /\ ui.erasing < MaxErase
  /\ LET inputValue == Trim(ui.input)
     IN ui' = resetIdleTimer(
                IF inputValue = <<>>
                THEN showMessage(ui, EmptyInputMessage(mode), TRUE)
                ELSE [clearMessage(ui) EXCEPT
                        !.working = mode,
                        !.disabled = [b \in Buttons |-> TRUE],
                        !.ops = Append(@, [mode |-> mode, input |-> inputValue])])
  /\ UNCHANGED uiOthers

\* The click handler from the settling of its operation to its end: the text
\* is shown (after unstash the input is cleared and erased 100 ms later), or the
\* error; the finally block enables every button again.
UISettle(k) ==
  /\ ~ui.closed
  /\ k \in 1..Len(ui.ops)
  /\ \E r \in Settlements :
       LET mode == ui.ops[k].mode
           shown ==
             IF ~r.ok THEN showMessage(ui, r.err, TRUE)
             ELSE IF mode = "unstash"
                  THEN showMessage([ui EXCEPT !.input = Cleared, !.erasing = @ + 1],
                                   SuccessMessage(mode), FALSE)
             ELSE showMessage([ui EXCEPT !.input = r.val], SuccessMessage(mode), FALSE)
       IN ui' = [shown EXCEPT !.working = "none",
                              !.disabled = [b \in Buttons |-> FALSE],
                              !.ops = Without(@, k)]
  /\ UNCHANGED uiOthers

\* A click on the clear button
UIClickClear ==
  /\ ~ui.closed
  /\ ~ui.disabled["clear"]
  /\ ui.erasing < MaxErase
  /\ ui' = resetIdleTimer(clearMessage([ui EXCEPT !.input = Cleared, !.erasing = @ + 1]))
  /\ UNCHANGED uiOthers

\* The 100 ms timeout set by the clear button and by unstash: secureErase(input)
UIErase ==
  /\ ~ui.closed
  /\ ui.erasing > 0
  /\ ui' = [ui EXCEPT !.input = <<>>, !.erasing = @ - 1]
  /\ UNCHANGED uiOthers

\* The user types: keydown resets the idle timer
UIType ==
  /\ ~ui.closed
  /\ \E text \in TypedInputs : ui' = resetIdleTimer([ui EXCEPT !.input = text])
  /\ ui' # ui
  /\ UNCHANGED uiOthers

\* mousemove
UIMouseMove ==
  /\ ~ui.closed
  /\ ui.timer # "armed"
  /\ ui' = resetIdleTimer(ui)
  /\ UNCHANGED uiOthers

\* The timeout of resetIdleTimer: 30 seconds passed without a reset.  Only a
\* popup is closed.
UIIdleTimeout ==
  /\ ~ui.closed
  /\ ui.timer = "armed"
  /\ ui' = IF ui.popup THEN [ui EXCEPT !.closed = TRUE, !.timer = "fired"]
           ELSE [ui EXCEPT !.timer = "fired"]
  /\ UNCHANGED uiOthers

UIInit ==
  /\ ui \in {Loaded(popup) : popup \in BOOLEAN}
  /\ server = [id \in Ids |-> NoStash]
  /\ reads = [id \in Ids |-> 0]
  /\ call = NoCall
  /\ workerReq = NoWorkerReq
  /\ workerResp = NoWorkerResp
  /\ httpReq = NoRequest
  /\ httpResp = NoResponse
  /\ pure = NoPure
  /\ workerLog = NoLog
  /\ calls = [i \in Callers |-> NoCallOf]
  /\ cryptoManager = 0
  /\ managers = [m \in Callers |-> NoManager]

UINext ==
  \/ \E mode \in Modes : UIClick(mode)
  \/ \E k \in 1..Len(ui.ops) : UISettle(k)
  \/ UIClickClear
  \/ UIErase
  \/ UIType
  \/ UIMouseMove
  \/ UIIdleTimeout

SpecUI == UIInit /\ [][UINext]_vars


\* ------------------------------------------------------------ properties

Done(op) == call.op = op /\ call.pc = "done"

\* C1: for every UUID-v4 id and every 32-byte key, decodeStashToken applied to
\* the token formatStashToken(id, key) produces succeeds and returns exactly
\* that id and exactly those 32 key bytes.
C1_TokenRoundTrip ==
  (pure.f = "token" /\ UUID_REGEX(pure.id) /\ Len(pure.key) = KEY_LENGTH)
    => /\ pure.token.ok
       /\ pure.parsed = Ok([id |-> pure.id, keyBuffer |-> pure.key])

\* An upper-case id and a key whose text holds both '-' and '_' came back.
C1_Witness ==
  /\ pure.f = "token"
  /\ pure.id = UuidOf("F", "4", "B")
  /\ {"-", "_"} \subseteq Range(pure.token.val)
  /\ pure.parsed.ok
  /\ pure.parsed.val.keyBuffer = pure.key

\* C2: with a server that stores the payload it is sent and returns it on the
\* first read, the token enstash returns names the stored payload and the key
\* it was encrypted under, the stored plaintext is the untrimmed secret, and
\* destash of that token returns the secret unchanged.
C2_DestashReturnsSecret ==
  /\ (Done("enstash") /\ call.out.ok)
       => /\ decodeStashToken(call.out.val) = Ok([id |-> call.id, keyBuffer |-> call.key])
          /\ (server[call.id].st = "created" /\ server[call.id].src.tampered = "no")
               => /\ server[call.id].payload.ciphertext.b64.ks[1] = call.key
                  /\ server[call.id].payload.ciphertext.b64.pt = TextEncode(call.secret)
  /\ (Done("destash") /\ call.status = 200 /\ call.src.tampered = "no" /\ call.key = call.src.key)
       => call.out = Ok(call.src.secret)

\* destash returned a secret with a blank at each end, as it was passed to enstash.
C2_Witness ==
  /\ Done("destash")
  /\ call.out.ok
  /\ call.out.val = <<Run(32, 1), Run(97, 2), Run(8364, 1), Run(9, 1)>>
  /\ StrTrim(call.out.val) # call.out.val

LifecycleErrors ==
  {"Stash not found", "This stash has expired", "This stash has already been consumed"}

\* The server answered a request for a stash that was never created or is in
\* a terminal state.
AnsweredGone ==
  /\ call.op \in {"destash", "unstash"}
  /\ call.pc = "done"
  /\ call.src.st \in {"absent", "consumed", "deleted", "expired"}

\* C3: at most one destash call per stash returns its secret, and a destash or
\* unstash the server answers for an id that was never created or is in a
\* terminal state fails with a not-found, an expired or an already-consumed
\* error and returns neither a secret nor a deletion confirmation.
C3_Lifecycle ==
  /\ \A id \in Ids : reads[id] <= 1
  /\ AnsweredGone => (~call.out.ok /\ call.out.err \in LifecycleErrors)

\* A second destash of a stash that was read once failed as already consumed.
C3_Witness ==
  /\ Done("destash")
  /\ call.src.st = "consumed"
  /\ reads[call.id] = 1
  /\ call.out = Err("This stash has already been consumed")

\* C3 as stated: every such call fails with the not-found error.
C3_NotFoundOnly ==
  /\ \A id \in Ids : reads[id] <= 1
  /\ AnsweredGone => call.out = Err("Stash not found")


\* C4: for every secret whose UTF-8 encoding is between 1 and 4096 bytes long,
\* the worker's encrypt succeeds, and its decrypt of the payload and the key
\* encrypt returned yields the secret.
C4_CipherRoundTrip ==
  (/\ pure.f = "cipher"
   /\ ByteLength(TextEncode(pure.secret)) >= 1
   /\ ByteLength(TextEncode(pure.secret)) <= MAX_SECRET_LENGTH)
    => /\ pure.enc.ok
       /\ pure.dec = Ok(pure.secret)

\* A secret of 4096 bytes, made of four-byte characters, came back.
C4_Witness ==
  /\ pure.f = "cipher"
  /\ pure.secret = <<Run(128512, 1024)>>
  /\ ByteLength(TextEncode(pure.secret)) = MAX_SECRET_LENGTH
  /\ pure.dec = Ok(pure.secret)

\* The payload destash received differs from the one encrypt produced, or the
\* key of the token is not the one encrypt produced.
Forged == call.src.tampered # "no" \/ call.key # call.src.key

\* C5: decrypt of a payload with a changed ciphertext byte or a changed tag
\* byte, or with a 32-byte key other than the one encrypt produced, returns
\* no plaintext: it fails with the authentication error of the cipher, and
\* destash fails with that error.
C5_AuthenticationFailure ==
  /\ (call.op = "destash" /\ call.pc = "crypto" /\ workerResp.ready /\ Forged)
       => workerResp.res = Err("OperationError")
  /\ (Done("destash") /\ call.status = 200 /\ Forged)
       => /\ Len(call.key) = KEY_LENGTH
          /\ call.out = Err("OperationError")

\* destash of a payload whose tag was changed, with the right key, failed.
C5_Witness ==
  /\ Done("destash")
  /\ call.status = 200
  /\ call.src.tampered = "tag"
  /\ call.key = call.src.key
  /\ call.out = Err("OperationError")

\* The texts of the key a call holds: the key encrypt returned or the token
\* carries, and the part of the token after its colon.
KeyTexts ==
  (IF call.key # <<>> THEN {KeyText(call.key)} ELSE {})
    \cup (IF IndexOf(call.token, ":") # 0
          THEN {Trim(SubSeq(call.token, IndexOf(call.token, ":") + 1, Len(call.token)))} \ {<<>>}
          ELSE {})

\* C6: no request sent to the API holds the key in its URL, headers or body:
\* the body of the enstash request has the fields iv, tag and ciphertext only,
\* and the URLs of destash and unstash end with the id of the token only.
C6_KeyNeverSent ==
  httpReq.method # "NONE" =>
    /\ \A k \in KeyTexts :
         /\ ~Includes(httpReq.path, k)
         /\ \A h \in httpReq.headers : ~Includes(h[1], k) /\ ~Includes(h[2], k)
         /\ httpReq.hasBody => \A f \in (DOMAIN httpReq.body) \ {"ciphertext"} :
                                 ~Includes(httpReq.body[f], k)
    /\ httpReq.hasBody <=> httpReq.method = "POST"
    /\ httpReq.hasBody =>
         /\ DOMAIN httpReq.body = {"iv", "tag", "ciphertext"}
         /\ base64UrlToBytes(httpReq.body.iv).val # call.key
         /\ base64UrlToBytes(httpReq.body.tag).val # call.key
    /\ httpReq.method = "POST" => httpReq.path = EnstashPath
    /\ httpReq.method = "GET" => httpReq.path = DestashPath \o call.id
    /\ httpReq.method = "DELETE" => httpReq.path = UnstashPath \o call.id
    /\ httpReq.method \in {"GET", "DELETE"} => UUID_REGEX(call.id) /\ ":" \notin Range(httpReq.path)

\* The POST of enstash is in flight and the call holds the key.
C6_Witness ==
  /\ httpReq.method = "POST"
  /\ call.op = "enstash"
  /\ Len(call.key) = KEY_LENGTH
  /\ httpReq.body.ciphertext.b64.ks[1] = call.key


\* A secret that is empty or holds blanks and tabs only.
Blank(secret) == \A i \in 1..Len(secret) : secret[i].c \in {9, 32}

\* C7: enstash of a secret that is empty or whitespace only fails with the
\* validation error, and the call starts no encryption and sends no request.
C7_BlankSecretRejected ==
  (call.op = "enstash" /\ Blank(call.secret))
    => /\ call.pc = "done"
       /\ call.out = Err("Secret cannot be empty or whitespace only")
       /\ call.nenc = 0
       /\ call.nreq = 0
       /\ workerReq = NoWorkerReq
       /\ ~workerResp.ready
       /\ httpReq = NoRequest

\* enstash of three blanks has failed.
C7_Witness ==
  /\ Done("enstash")
  /\ call.secret = <<Run(32, 3)>>
  /\ ~call.out.ok

\* C8: destash sends its GET only after decodeStashToken accepted its
\* argument: for every input decodeStashToken rejects, destash fails with the
\* error of decodeStashToken and sends no request.
C8_MalformedTokenRejected ==
  /\ (call.op = "destash" /\ ~decodeStashToken(call.token).ok)
       => /\ call.pc = "done"
          /\ call.out = decodeStashToken(call.token)
          /\ call.nreq = 0
          /\ call.status = 0
          /\ httpReq = NoRequest
  /\ httpReq.method = "GET" => decodeStashToken(call.token).ok

\* destash of a token whose key decodes to 31 bytes has failed.
C8_Witness ==
  /\ Done("destash")
  /\ call.token = UuidOf("a", "4", "8") \o <<":">> \o arrayBufferToBase64Url(SubSeq(Key(0), 1, 31))
  /\ call.out = Err("Invalid stash token key: must decode to 32 bytes")

\* C9 as stated: the limit is counted in UTF-8 bytes.  enstash of a secret of
\* exactly 4096 bytes is not rejected as too long, and a secret of more than
\* 4096 bytes is rejected by enstash before any encryption is started, and by
\* the encrypt of the worker when it is handed one.
C9_LimitInBytes ==
  /\ (Done("enstash") /\ ByteLength(TextEncode(call.secret)) = MAX_SECRET_LENGTH)
       => call.nenc = 1
  /\ (call.op = "enstash" /\ ByteLength(TextEncode(call.secret)) > MAX_SECRET_LENGTH)
       => /\ call.pc = "done"
          /\ ~call.out.ok
          /\ call.nenc = 0
  /\ (workerResp.ready /\ call.op = "enstash"
        /\ ByteLength(TextEncode(call.secret)) > MAX_SECRET_LENGTH)
       => ~workerResp.res.ok

\* The local checks of a call passed: the secret is valid and the worker
\* takes it, or the token or id was parsed.
LocalChecksPass ==
  CASE call.op = "enstash" ->
         /\ validateSecretContent(call.secret)
         /\ validateSecretLength(call.secret)
         /\ encryptSecret(call.secret, Key(0), Iv(3)).ok
    [] call.op = "destash" ->
         decodeStashToken(call.token).ok /\ validateUUID(decodeStashToken(call.token).val.id)
    [] call.op = "unstash" ->
         IF IndexOf(call.token, ":") # 0
         THEN decodeStashToken(call.token).ok /\ validateUUID(decodeStashToken(call.token).val.id)
         ELSE validateUUID(call.token)
    [] OTHER -> FALSE

\* C10: a call of enstash, destash or unstash sends at most one request, and
\* when it ends it has sent exactly one if its local checks (and the
\* encryption, for enstash) passed and none otherwise; when a destash has
\* failed no request is in flight.
C10_OneRequest ==
  /\ call.nreq <= 1
  /\ httpReq.method # "NONE" => call.nreq = 1 /\ call.pc = "fetch"
  /\ (call.op # "none" /\ call.pc = "done")
       => /\ call.nreq = (IF LocalChecksPass THEN 1 ELSE 0)
          /\ httpReq = NoRequest

\* A destash ended in a failure of the server after its one request.
C10_Witness ==
  /\ Done("destash")
  /\ call.status = 500
  /\ ~call.out.ok
  /\ call.nreq = 1
  /\ httpReq = NoRequest


\* The settlements of the crypto request of caller i that do not come from
\* another call: the result of the worker, the timeout, the error of the worker.
AloneSettlements(i) ==
  { IF calls[i].op = "enstash" THEN WorkerEncrypt(calls[i].secret, DrawnKey(i), Iv(3))
    ELSE WorkerDecrypt(calls[i].payload, calls[i].key),
    Err("Crypto operation timeout"),
    Err("Worker error") }

\* C11 as stated: concurrent calls are independent.  The crypto step of a call
\* is settled as it would be with the call running alone, whatever the other
\* calls do: it is not rejected because another call ended, and its request is
\* not posted to a worker another call has terminated.
C11_CallsIndependent ==
  \A i \in Callers :
    /\ calls[i].settled > 0 => calls[i].res \in AloneSettlements(i)
    /\ calls[i].pc = "crypto" => managers[calls[i].m].worker = "alive"


\* The parts of a token text: what is before and after its first colon, trimmed.
IdPart(t) == Trim(SubSeq(Trim(t), 1, IndexOf(Trim(t), ":") - 1))
KeyPart(t) == Trim(SubSeq(Trim(t), IndexOf(Trim(t), ":") + 1, Len(Trim(t))))

\* A text that is base64url text of exactly 32 decoded bytes, by the codec.
IsKeyText(k) ==
  /\ k # <<>>
  /\ Range(k) \subseteq B64UrlChars
  /\ base64UrlToBytes(k).ok
  /\ Len(base64UrlToBytes(k).val) = KEY_LENGTH

\* A token text the token format does not admit.
NotAToken(t) ==
  \/ Trim(t) = <<>>
  \/ ":" \notin Range(Trim(t))
  \/ IdPart(t) = <<>>
  \/ KeyPart(t) = <<>>
  \/ ~UUID_REGEX(IdPart(t))
  \/ ~IsKeyText(KeyPart(t))

\* C12: decodeStashToken fails and returns no {id, key} for every input that,
\* trimmed, is empty, has no colon, has an empty part before or after its first
\* colon, has an id part that is no UUID-v4, or has a key part that is not
\* base64url text of exactly 32 bytes; what it returns is split at the first
\* colon.
C12_DecodeRejects ==
  pure.f = "decode" =>
    /\ NotAToken(pure.token) => (~pure.parsed.ok /\ pure.parsed.val = <<>>)
    /\ pure.parsed.ok =>
         /\ pure.parsed.val.id = IdPart(pure.token)
         /\ pure.parsed.val.keyBuffer = base64UrlToBytes(KeyPart(pure.token)).val

\* A text with a second colon after a valid key was rejected for its key part.
C12_Witness ==
  /\ pure.f = "decode"
  /\ pure.token = UuidOf("a", "4", "8") \o <<":">> \o KeyText(Key(0)) \o <<":", "x">>
  /\ pure.parsed = Err("Invalid stash token key: must decode to 32 bytes")


\* C22: after the crypto worker has handled a decrypt request, the key buffer it
\* received holds only zeros, whether the decryption succeeded or failed.
C22_KeyZeroed ==
  (workerResp.ready /\ workerResp.action = "decrypt")
    => \A i \in 1..Len(workerResp.keyBuffer) : workerResp.keyBuffer[i] = 0

\* The worker handled a decrypt request with a key other than zeros.
C22_DecryptHandled ==
  /\ workerResp.ready
  /\ workerResp.action = "decrypt"
  /\ workerResp.res.ok
  /\ \E i \in 1..Len(call.key) : call.key[i] # 0


\* C23: at most one operation started from the page is in flight; while one is
\* in flight every operation button and the clear button are disabled, and
\* when none is in flight all of them are enabled.
C23_OneInFlight ==
  /\ Len(ui.ops) <= 1
  /\ ui.ops # <<>> => \A b \in Buttons : ui.disabled[b]
  /\ ui.ops = <<>> => \A b \in Buttons : ~ui.disabled[b]

\* An operation finished with an error after the user typed during it, and the
\* buttons are enabled again.
C23_Witness ==
  /\ ui.ops = <<>>
  /\ ui.message = [text |-> "Stash not found", error |-> TRUE]
  /\ ui.input = <<" ", "s", "\t">>
  /\ \A b \in Buttons : ~ui.disabled[b]

\* C30: the idle timeout never closes the window while an operation started
\* from the page is in flight.
C30_NoCloseInFlight == ui.closed => ui.ops = <<>>


\* C24: for every text over the base64url alphabet and every n, the length
\* check (assertB64UrlLen) passes exactly when base64UrlToBytes succeeds and
\* returns n bytes, texts of a length of 1 modulo 4 included.
C24_LengthAgrees ==
  pure.f = "length" =>
    (pure.passes <=> (pure.bytes.ok /\ Len(pure.bytes.val) = pure.n))

\* The same for the texts whose length is not 1 modulo 4.
C24_AgreesOffOneModFour ==
  (pure.f = "length" /\ Len(pure.s) % 4 # 1) =>
    (pure.passes <=> (pure.bytes.ok /\ Len(pure.bytes.val) = pure.n))


\* C25: the payload produced for a secret that passes the checks of enstash is
\* accepted by parsePayload: its iv decodes to 12 bytes, its tag to 16 and its
\* ciphertext to between 1 and 16384 bytes.
C25_PayloadAccepted ==
  (pure.f = "produce" /\ pure.valid) =>
    /\ pure.encrypted
    /\ pure.accepted
    /\ pure.ivBytes = IV_LENGTH
    /\ pure.tagBytes = TAG_LENGTH
    /\ pure.ctBytes >= 1
    /\ pure.ctBytes <= MAX_CIPHERTEXT_BYTES

\* The payload of the longest secret in bytes (4096 characters of three bytes)
\* was accepted.
C25_Witness ==
  /\ pure.f = "produce"
  /\ pure.secret = <<Run(8364, 4096)>>
  /\ pure.accepted
  /\ pure.ctBytes = 3 * MAX_SECRET_LENGTH


\* A response is delivered to manager m whose id is not in pendingRequests.
StaleResponse(m) ==
  /\ managers[m].worker = "alive"
  /\ managers'[m].worker = "alive"
  /\ \E msg \in managers[m].inbox :
       /\ managers'[m].inbox = managers[m].inbox \ {msg}
       /\ msg.id \notin managers[m].pending

\* C26: in the crypto manager, under every interleaving of response, timeout,
\* worker error and terminate(), no request is settled twice, pendingRequests
\* holds the id of a request exactly while the request is unsettled, and a
\* response whose id is not pending changes neither a call nor the map.
C26_SettledOnce ==
  /\ [](\A i \in Callers :
         /\ calls[i].settled <= 1
         /\ calls[i].req # 0 =>
              ((calls[i].req \in managers[calls[i].m].pending) <=> (calls[i].settled = 0)))
  /\ [][\A m \in Callers :
          StaleResponse(m) =>
            (calls' = calls /\ managers'[m].pending = managers[m].pending)]_vars

\* A request was rejected by its timeout and the late response of the worker
\* was delivered afterwards: the call is still in its finally block, settled
\* once.
C26_Witness ==
  \E i \in Callers :
    /\ calls[i].pc = "finally"
    /\ calls[i].settled = 1
    /\ calls[i].res = Err("Crypto operation timeout")
    /\ managers[calls[i].m].worker = "alive"
    /\ managers[calls[i].m].inbox = {}
    /\ managers[calls[i].m].pending = {}


\* C27: every request sent through the crypto manager is settled in the end,
\* also when the worker never answers, when the request was posted to a worker
\* that terminate() had killed, and on a manager that was discarded: a call
\* leaves the wait for its request only by being settled, and from some point
\* on no call waits.
C27_RequestsSettle == <>[](\A i \in Callers : calls[i].pc # "crypto")

\* A request is pending on a manager that terminateCryptoManager() discarded,
\* posted to a worker that was terminated before: no answer will come.
C27_Witness ==
  \E i \in Callers :
    /\ calls[i].pc = "crypto"
    /\ cryptoManager # calls[i].m
    /\ managers[calls[i].m].worker = "terminated"
    /\ calls[i].req \in managers[calls[i].m].pending


\* A message with a string id, a string action and an object as data
WellFormedMessage(msg) ==
  /\ msg.t = "object"
  /\ msg.id.t = "string"
  /\ msg.action.t = "string"
  /\ msg.data.t = "object"

\* C28: for every message with a string id, a string action and an object as
\* data, the worker posts exactly one response, and it carries the id of the
\* request.
C28_OneResponse ==
  (pure.f = "onmessage" /\ WellFormedMessage(pure.msg)) =>
    /\ Len(pure.posted) = 1
    /\ pure.posted[1].id = pure.msg.id.s

\* The same for the requests other than encrypt with a non-empty id: one
\* response with the id of the request.
C28_OneResponseUnlessEncrypt ==
  (/\ pure.f = "onmessage"
   /\ WellFormedMessage(pure.msg)
   /\ pure.msg.id.s # ""
   /\ pure.msg.action.s # "encrypt") =>
    /\ Len(pure.posted) = 1
    /\ pure.posted[1].id = pure.msg.id.s

\* An encrypt request that succeeds is answered twice.
C28_EncryptAnsweredTwice ==
  /\ pure.f = "onmessage"
  /\ WellFormedMessage(pure.msg)
  /\ pure.msg.id = StringValue("req-1")
  /\ Len(pure.posted) = 2
  /\ pure.posted[1].success
  /\ ~pure.posted[2].success


\* No stash operation is in flight.
NoneInFlight == \A i \in Callers : calls[i].pc \in {"idle", "done"}

\* C29: when performEnstash or performDestash has finished, by returning or by
\* throwing, and no other operation is in flight, the singleton is null, no
\* worker is alive and no request is pending; performUnstash creates no
\* manager and no worker.
C29_ManagerGone ==
  /\ NoneInFlight =>
       /\ cryptoManager = 0
       /\ \A m \in Callers : managers[m].worker # "alive" /\ managers[m].pending = {}
  /\ \A i \in Callers : calls[i].op = "unstash" => calls[i].m = 0
  /\ (\A i \in Callers : calls[i].op \in {"none", "unstash"})
       => \A m \in Callers : ~managers[m].created

\* Every call has finished, among them an enstash that returned a token and an
\* unstash; the worker the enstash used is terminated.
C29_Witness ==
  /\ \A i \in Callers : calls[i].pc = "done"
  /\ \E i \in Callers :
       /\ calls[i].op = "enstash"
       /\ calls[i].out.ok
       /\ calls[i].m # 0
       /\ managers[calls[i].m].worker = "terminated"
  /\ \E i \in Callers : calls[i].op = "unstash" /\ calls[i].out.ok


\* The number of characters of the base64url text of n bytes, without padding.
EncodedLength(n) == (n * 8 + 5) \div 6

\* C21: when a token is parsed, the decode of the key text is reached only after
\* the check of its length, and only for a key text whose length is that of the
\* text of exactly 32 bytes, whatever the size of the input.
C21_LengthBeforeDecode ==
  (pure.f = "decode" /\ \E i \in 1..Len(pure.steps) : pure.steps[i] = "base64UrlToBytes")
    => /\ Len(KeyPart(pure.token)) = EncodedLength(KEY_LENGTH)
       /\ pure.steps = <<"assertB64UrlLen", "base64UrlToBytes">>

\* A token whose key text has 20004 characters (1 modulo 4, for which b64urlLen
\* gives 15000) was rejected by the length check alone.
C21_Witness ==
  /\ pure.f = "decode"
  /\ Len(KeyPart(pure.token)) = 20004
  /\ pure.steps = <<"assertB64UrlLen">>
  /\ ~pure.parsed.ok


\* The number of bytes a JSON value decodes to as base64url text, -1 when it is
\* no string or the codec rejects it.
DecodedLength(v) ==
  IF v.t # "string" THEN -1
  ELSE IF ~base64UrlToBytes(v.s).ok THEN -1
  ELSE Len(base64UrlToBytes(v.s).val)

\* The fields of a JSON value decode to 12 bytes, 16 bytes and 1..16384 bytes.
WellSized(data) ==
  /\ data.t = "object"
  /\ DecodedLength(Field(data, "iv")) = IV_LENGTH
  /\ DecodedLength(Field(data, "tag")) = TAG_LENGTH
  /\ DecodedLength(Field(data, "ciphertext")) >= 1
  /\ DecodedLength(Field(data, "ciphertext")) <= MAX_CIPHERTEXT_BYTES

\* C13 as stated: parsePayload rejects every payload whose iv does not decode to
\* exactly 12 bytes, whose tag does not decode to exactly 16 bytes or whose
\* ciphertext decodes to 0 or to more than 16384 bytes; every payload it
\* returns has the three fields decodable to those lengths.
C13_PayloadRejects ==
  pure.f = "payload" => (pure.parsed.ok => WellSized(pure.data))


\* C14 as stated: unstash extracts the id as parseUUID does.  It sends DELETE
\* for id exactly when parseUUID returns id for its argument (the key part of
\* the argument is not examined), and fails without a request otherwise.
C14_UnstashAsParseUUID ==
  call.op = "unstash" =>
    /\ parseUUID(call.token) # <<>> => (call.nreq = 1 /\ call.id = parseUUID(call.token))
    /\ parseUUID(call.token) = <<>> => (call.nreq = 0 /\ call.pc = "done" /\ ~call.out.ok)


\* C15: parseUUID never throws.  For every input, a string or not, it returns
\* null or a string that matches the UUID-v4 pattern (null for every value that
\* is no string); for every token decodeStashToken accepts it returns the id
\* decodeStashToken returns.
C15_ParseUUIDTotal ==
  pure.f = "uuid" =>
    /\ pure.id = <<>> \/ UUID_REGEX(pure.id)
    /\ pure.value.t # "string" => pure.id = <<>>
    /\ pure.decoded.ok => pure.id = pure.decoded.val.id

\* parseUUID returned the upper-case id of a token with blanks around its colon,
\* as decodeStashToken did.
C15_Witness ==
  /\ pure.f = "uuid"
  /\ pure.value = JsonString(UuidOf("E", "4", "B") \o <<" ", ":", "\t">> \o KeyText(Key(255)))
  /\ pure.decoded.ok
  /\ pure.id = UuidOf("E", "4", "B")


\* The outcome destash has for a response that is not ok
MappedOutcome(r, c) ==
  /\ c.pc = "done"
  /\ ~c.out.ok
  /\ r.status = 404 => c.out = Err("Stash not found")
  /\ (r.status = 410 /\ r.error = "Expired") => c.out = Err("This stash has expired")
  /\ (r.status = 410 /\ r.error # "Expired") => c.out = Err("This stash has already been consumed")
  /\ r.status \notin {404, 410} =>
       /\ c.out.err = "API error"
       /\ "status" \in DOMAIN c.out
       /\ c.out.status = r.status
       /\ c.out.body = r.error

PayloadRejected(payload) ==
  \/ ~assertB64UrlLen(payload.iv, IV_LENGTH)
  \/ ~assertB64UrlLen(payload.tag, TAG_LENGTH)
  \/ CtTextLength(payload.ciphertext) = 0
  \/ b64urlLenOf(CtTextLength(payload.ciphertext)) <= 0
  \/ b64urlLenOf(CtTextLength(payload.ciphertext)) > MAX_CIPHERTEXT_BYTES

\* C17 as stated: destash validates every 2xx response body as a Payload
\* before it decrypts.  Whenever parsePayload would reject the body, destash
\* fails and returns no secret.
C17_BodyValidated ==
  (call.op = "destash" /\ call.pc = "done" /\ call.ndec = 1 /\ PayloadRejected(call.payload))
    => ~call.out.ok


\* The text has the form <uuid-v4>:<43 base64url characters>.
TokenForm(t) ==
  /\ Len(t) = 80
  /\ UUID_REGEX(SubSeq(t, 1, 36))
  /\ t[37] = ":"
  /\ B64URL(SubSeq(t, 38, 80))

\* The token enstash returned has the form of a token, and decodeStashToken
\* gives the id of the response and the key of the encryption.
TokenReturned ==
  /\ TokenForm(call.out.val)
  /\ decodeStashToken(call.out.val) = Ok([id |-> call.id, keyBuffer |-> call.key])

SourceNeverRepeats ==
  \A i, j \in 1..Len(workerLog.drawn) : i # j => workerLog.drawn[i] # workerLog.drawn[j]

\* The key, the iv and the ciphertext of the k-th encryption
KeyOf(k) == workerLog.encrypted[k].result.keyBuffer
IvOf(k) == base64UrlToBytes(workerLog.encrypted[k].result.payload.iv).val
CiphertextOf(k) == workerLog.encrypted[k].result.payload.ciphertext

\* C19: across any sequence of encrypt calls, every call draws a new key and a
\* new 12-byte iv and encrypts with them.  As long as the random source does
\* not return a value twice, no two calls share the same (key, iv) pair, and two
\* encryptions of the same secret yield different iv and different ciphertext.
C19_Freshness ==
  LET n == Len(workerLog.encrypted)
  IN /\ Len(workerLog.drawn) = 2 * n
     /\ \A k \in 1..n :
          /\ KeyOf(k) = workerLog.drawn[(2 * k) - 1]
          /\ IvOf(k) = workerLog.drawn[2 * k]
          /\ Len(KeyOf(k)) = KEY_LENGTH
          /\ Len(IvOf(k)) = IV_LENGTH
          /\ CiphertextOf(k).b64.ks = <<KeyOf(k), IvOf(k)>>
     /\ SourceNeverRepeats =>
          \A i, j \in 1..n : i # j =>
            /\ <<KeyOf(i), IvOf(i)>> # <<KeyOf(j), IvOf(j)>>
            /\ workerLog.encrypted[i].secret = workerLog.encrypted[j].secret
                 => (IvOf(i) # IvOf(j) /\ CiphertextOf(i) # CiphertextOf(j))

\* The same secret was encrypted twice, with two keys and two ivs.
C19_Witness ==
  /\ Len(workerLog.encrypted) = 2
  /\ SourceNeverRepeats
  /\ workerLog.encrypted[1].secret = <<Run(97, 2)>>
  /\ workerLog.encrypted[2].secret = <<Run(97, 2)>>
  /\ IvOf(1) # IvOf(2)


\* The text decodes to n bytes.
DecodesTo(text, n) ==
  /\ base64UrlToBytes(text).ok
  /\ Len(base64UrlToBytes(text).val) = n

\* C20: decrypt checks its inputs before any cryptographic operation.  It
\* fails when the key is not exactly 32 bytes, when the iv does not decode to
\* exactly 12 bytes or when the tag does not decode to exactly 16 bytes, and
\* in each of these cases AES-GCM is never invoked.
C20_ChecksBeforeCrypto ==
  pure.f = "decrypt" =>
    /\ (\/ Len(pure.keyBuffer) # KEY_LENGTH
        \/ ~DecodesTo(pure.payload.iv, IV_LENGTH)
        \/ ~DecodesTo(pure.payload.tag, TAG_LENGTH))
         => (~pure.traced.res.ok /\ pure.traced.subtle = <<>>)
    /\ pure.traced.res.ok => pure.traced.subtle = <<"importKey", "decrypt">>

\* decrypt of a payload whose tag decodes to 15 bytes, with the right key,
\* failed before the key was imported.
C20_Witness ==
  /\ pure.f = "decrypt"
  /\ pure.keyBuffer = DecryptKey
  /\ DecodesTo(pure.payload.iv, IV_LENGTH)
  /\ DecodesTo(pure.payload.tag, TAG_LENGTH - 1)
  /\ pure.traced = [res |-> Err("Invalid auth tag length: must be 16 bytes"), subtle |-> <<>>]


====
